---- MODULE Spec2Model ----
(***************************************************************************)
(* A model of the mlcts transliteration core: the phoneme model            *)
(* (mlcts_core), the Myanmar-script decomposer and syllable boundary       *)
(* finder (mlcts_from_my) and the MLCTS tokenizer (mlcts_tokenizer).       *)
(*                                                                         *)
(* Text is a sequence of Unicode code points.  A byte offset into a text   *)
(* is computed from the UTF-8 length of each code point, as Rust's &str    *)
(* does.                                                                   *)
(***************************************************************************)
EXTENDS Integers, Sequences, FiniteSets, TLC

VARIABLES
  pc,        \* the position of the running call
  input,     \* the text the call was given
  spans,     \* from_my: the Vec returned by split_syllables
  idx,       \* from_my: the index of the next span of the map
  parts,     \* from_my: the strings the map has produced
  output,    \* from_my: the returned String
  parsed,    \* the result of the last parse_syllable call
  args,      \* phoneme model: the arguments of the call
  mlcts,     \* phoneme model: the String returned by to_mlcts
  combined,  \* phoneme model: the result of combine
  cursor,    \* tokenizer: the byte offset of the cursor
  tokens     \* tokenizer: the tokens returned so far

vars == <<pc, input, spans, idx, parts, output, parsed, args, mlcts,
          combined, cursor, tokens>>

-----------------------------------------------------------------------------
(* Code points.                                                            *)

EOF_CHAR == 0

KA == 4096
KHA == 4097
GA == 4098
GHA == 4099
NGA == 4100
CA == 4101
CHA == 4102
JA == 4103
JHA == 4104
NYA == 4105
NNYA == 4106
TTA == 4107
TTHA == 4108
DDA == 4109
DDHA == 4110
NNA == 4111
TA == 4112
THA == 4113
DA == 4114
DHA == 4115
NA == 4116
PA == 4117
PHA == 4118
BA == 4119
BHA == 4120
MA == 4121
YA == 4122
RA == 4123
LA == 4124
WA == 4125
SA == 4126
HA == 4127
LLA == 4128
LETTER_A == 4129
GREAT_SA == 4159

VOW_A == 4140
VOW_I_CREAKY == 4141
VOW_I == 4142
VOW_U_CREAKY == 4143
VOW_U == 4144
VOW_E == 4145
VOW_AI_H == 4146
TONE_CREAKY == 4151
TONE_HIGH == 4152
STACK_SIGN == 4153
ASAT == 4154
MEDIAL_Y == 4155
MEDIAL_R == 4156
MEDIAL_W == 4157
MEDIAL_H == 4158

\* ASCII ':' and '.', as written in the closure rows of parse_syllable.
COLON == 58
DOT == 46

\* The code point of each ASCII character the MLCTS tables spell with.
Chr ==
  [c \in {"a", "b", "c", "d", "e", "g", "h", "i", "j", "k", "l", "m", "n",
          "p", "r", "s", "t", "u", "w", "y", ":", "."} |->
     CASE c = "a" -> 97  [] c = "b" -> 98  [] c = "c" -> 99  [] c = "d" -> 100
       [] c = "e" -> 101 [] c = "g" -> 103 [] c = "h" -> 104 [] c = "i" -> 105
       [] c = "j" -> 106 [] c = "k" -> 107 [] c = "l" -> 108 [] c = "m" -> 109
       [] c = "n" -> 110 [] c = "p" -> 112 [] c = "r" -> 114 [] c = "s" -> 115
       [] c = "t" -> 116 [] c = "u" -> 117 [] c = "w" -> 119 [] c = "y" -> 121
       [] c = ":" -> 58  [] c = "." -> 46]

\* A string literal: the text whose characters are the given ASCII characters.
Lit(cs) == [i \in 1..Len(cs) |-> Chr[cs[i]]]

\* The number of bytes of one code point in UTF-8.
Utf8Len(c) ==
  IF c < 128 THEN 1 ELSE IF c < 2048 THEN 2 ELSE IF c < 65536 THEN 3 ELSE 4

\* str::len: the number of bytes of a text.
RECURSIVE ByteLen(_)
ByteLen(s) == IF s = <<>> THEN 0 ELSE Utf8Len(Head(s)) + ByteLen(Tail(s))

\* The text from its n-th character (1-based) to its end.
From(s, n) == SubSeq(s, n, Len(s))

\* chars().nth(n - 1).unwrap_or_else(|| EOF_CHAR)
CharAt(s, n) == IF n <= Len(s) THEN s[n] ELSE EOF_CHAR

RECURSIVE Concat(_)
Concat(ss) == IF ss = <<>> THEN <<>> ELSE Head(ss) \o Concat(Tail(ss))

None == "None"

-----------------------------------------------------------------------------
(* mlcts_core: the phoneme model.                                          *)

BasicConsonant ==
  {"K", "Hk", "G", "Gh", "Ng", "C", "Hc", "J", "Jh", "Ny", "T", "Ht", "D",
   "Dh", "N", "P", "Hp", "B", "Bh", "M", "Y", "R", "L", "W", "S", "H", "A"}

MedialDiacritic ==
  {"Y", "R", "W", "H", "Yw", "Rw", "Hy", "Hr", "Hw", "Hyw", "Hrw"}

Tone == {"High", "Creaky"}

Virama ==
  {"K", "G", "Ng", "C", "J", "Ny", "T", "Ht", "D", "N", "P", "B", "M", "S",
   "L"}

BasicVowel == {"A", "I", "U", "E", "Ai", "Au", "Ui"}

\* Option<T>
Opt(T) == T \cup {None}

\* BasicConsonant::to_mlcts
BasicConsonantToMlcts(b) ==
  CASE b = "K" -> Lit(<<"k">>)       [] b = "Hk" -> Lit(<<"h", "k">>)
    [] b = "G" -> Lit(<<"g">>)       [] b = "Gh" -> Lit(<<"g", "h">>)
    [] b = "Ng" -> Lit(<<"n", "g">>) [] b = "C" -> Lit(<<"c">>)
    [] b = "Hc" -> Lit(<<"h", "c">>) [] b = "J" -> Lit(<<"j">>)
    [] b = "Jh" -> Lit(<<"j", "h">>) [] b = "Ny" -> Lit(<<"n", "y">>)
    [] b = "T" -> Lit(<<"t">>)       [] b = "Ht" -> Lit(<<"h", "t">>)
    [] b = "D" -> Lit(<<"d">>)       [] b = "Dh" -> Lit(<<"d", "h">>)
    [] b = "N" -> Lit(<<"n">>)       [] b = "P" -> Lit(<<"p">>)
    [] b = "Hp" -> Lit(<<"h", "p">>) [] b = "B" -> Lit(<<"b">>)
    [] b = "Bh" -> Lit(<<"b", "h">>) [] b = "M" -> Lit(<<"m">>)
    [] b = "Y" -> Lit(<<"y">>)       [] b = "R" -> Lit(<<"r">>)
    [] b = "L" -> Lit(<<"l">>)       [] b = "W" -> Lit(<<"w">>)
    [] b = "S" -> Lit(<<"s">>)       [] b = "H" -> Lit(<<"h">>)
    [] b = "A" -> Lit(<<"a">>)

\* BasicConsonant::from_my_alphabet without the arm of the letter A.
FromMyAlphabetWithoutA(c) ==
  CASE c = KA -> "K"     [] c = KHA -> "Hk"  [] c = GA -> "G"
    [] c = GHA -> "Gh"   [] c = NGA -> "Ng"  [] c = CA -> "C"
    [] c = CHA -> "Hc"   [] c = JA -> "J"    [] c = JHA -> "Jh"
    [] c = NYA -> "Ny"   [] c = NNYA -> "Ny" [] c = TTA -> "T"
    [] c = TTHA -> "Ht"  [] c = DDA -> "D"   [] c = DDHA -> "Dh"
    [] c = NNA -> "N"    [] c = TA -> "T"    [] c = THA -> "Ht"
    [] c = DA -> "D"     [] c = DHA -> "Dh"  [] c = NA -> "N"
    [] c = PA -> "P"     [] c = PHA -> "Hp"  [] c = BA -> "B"
    [] c = BHA -> "Bh"   [] c = MA -> "M"    [] c = YA -> "Y"
    [] c = RA -> "R"     [] c = LA -> "L"    [] c = WA -> "W"
    [] c = SA -> "S"     [] c = HA -> "H"    [] c = LLA -> "L"
    [] OTHER -> None

\* BasicConsonant::from_my_alphabet: Err is None.
FromMyAlphabet(c) ==
  CASE c = KA -> "K"     [] c = KHA -> "Hk"  [] c = GA -> "G"
    [] c = GHA -> "Gh"   [] c = NGA -> "Ng"  [] c = CA -> "C"
    [] c = CHA -> "Hc"   [] c = JA -> "J"    [] c = JHA -> "Jh"
    [] c = NYA -> "Ny"   [] c = NNYA -> "Ny" [] c = TTA -> "T"
    [] c = TTHA -> "Ht"  [] c = DDA -> "D"   [] c = DDHA -> "Dh"
    [] c = NNA -> "N"    [] c = TA -> "T"    [] c = THA -> "Ht"
    [] c = DA -> "D"     [] c = DHA -> "Dh"  [] c = NA -> "N"
    [] c = PA -> "P"     [] c = PHA -> "Hp"  [] c = BA -> "B"
    [] c = BHA -> "Bh"   [] c = MA -> "M"    [] c = YA -> "Y"
    [] c = RA -> "R"     [] c = LA -> "L"    [] c = WA -> "W"
    [] c = SA -> "S"     [] c = HA -> "H"    [] c = LLA -> "L"
    [] c = LETTER_A -> "A"
    [] OTHER -> None

\* MedialDiacritic::combine with one more row, (W, H) -> Hw.
CombineAlsoWH(a, b) ==
  CASE a = "H" /\ b = "Y" -> "Hy"
    [] a = "H" /\ b = "R" -> "Hr"
    [] a = "H" /\ b = "W" -> "Hw"
    [] a = "W" /\ b = "H" -> "Hw"
    [] a = "Y" /\ b = "W" -> "Yw"
    [] a = "R" /\ b = "W" -> "Rw"
    [] a = "Hy" /\ b = "W" -> "Hyw"
    [] a = "Hr" /\ b = "W" -> "Hrw"
    [] OTHER -> None

\* combine with the pair (Y, H) accepted as well.
CombineAlsoYH(a, b) ==
  CASE a = "H" /\ b = "Y" -> "Hy"
    [] a = "Y" /\ b = "H" -> "Hy"
    [] a = "H" /\ b = "R" -> "Hr"
    [] a = "H" /\ b = "W" -> "Hw"
    [] a = "Y" /\ b = "W" -> "Yw"
    [] a = "R" /\ b = "W" -> "Rw"
    [] a = "Hy" /\ b = "W" -> "Hyw"
    [] a = "Hr" /\ b = "W" -> "Hrw"
    [] OTHER -> None

\* MedialDiacritic::combine: Result<MedialDiacritic, ()>, Err is None.
Combine(a, b) ==
  CASE a = "H" /\ b = "Y" -> "Hy"
    [] a = "H" /\ b = "R" -> "Hr"
    [] a = "H" /\ b = "W" -> "Hw"
    [] a = "Y" /\ b = "W" -> "Yw"
    [] a = "R" /\ b = "W" -> "Rw"
    [] a = "Hy" /\ b = "W" -> "Hyw"
    [] a = "Hr" /\ b = "W" -> "Hrw"
    [] OTHER -> None

\* The serialization of a consonant with its medial left out.
ConsonantToMlctsWithoutMedial(c) == BasicConsonantToMlcts(c.basic)

\* Consonant::to_mlcts
ConsonantToMlcts(c) ==
  LET result == BasicConsonantToMlcts(c.basic)
      h == Lit(<<"h">>)
      y == Lit(<<"y">>)
      r == Lit(<<"r">>)
      w == Lit(<<"w">>)
  IN  CASE c.medial = "Hrw" -> h \o result \o r \o w
        [] c.medial = "Hyw" -> h \o result \o y \o w
        [] c.medial = "Hw" -> h \o result \o w
        [] c.medial = "Hr" -> h \o result \o r
        [] c.medial = "Hy" -> h \o result \o y
        [] c.medial = "H" -> h \o result
        [] c.medial = "Rw" -> r \o result \o w
        [] c.medial = "R" -> r \o result
        [] c.medial = "Yw" -> y \o result \o w
        [] c.medial = "Y" -> y \o result
        [] c.medial = "W" -> w \o result
        [] c.medial = None -> result

\* Tone::to_mlcts
ToneToMlcts(t) ==
  CASE t = "High" -> Lit(<<":">>)
    [] t = "Creaky" -> Lit(<<".">>)

\* Virama::to_mlcts
ViramaToMlcts(v) ==
  CASE v = "K" -> Lit(<<"k">>)       [] v = "G" -> Lit(<<"g">>)
    [] v = "Ng" -> Lit(<<"n", "g">>) [] v = "C" -> Lit(<<"c">>)
    [] v = "J" -> Lit(<<"j">>)       [] v = "Ny" -> Lit(<<"n", "y">>)
    [] v = "T" -> Lit(<<"t">>)       [] v = "Ht" -> Lit(<<"h", "t">>)
    [] v = "D" -> Lit(<<"d">>)       [] v = "N" -> Lit(<<"n">>)
    [] v = "P" -> Lit(<<"p">>)       [] v = "B" -> Lit(<<"b">>)
    [] v = "M" -> Lit(<<"m">>)       [] v = "S" -> Lit(<<"s">>)
    [] v = "L" -> Lit(<<"l">>)

\* impl Into<BasicConsonant> for Virama
ViramaIntoBasicConsonant(v) == v

\* BasicVowel::to_mlcts
BasicVowelToMlcts(v) ==
  CASE v = "A" -> Lit(<<"a">>)       [] v = "I" -> Lit(<<"i">>)
    [] v = "U" -> Lit(<<"u">>)       [] v = "E" -> Lit(<<"e">>)
    [] v = "Ai" -> Lit(<<"a", "i">>) [] v = "Au" -> Lit(<<"a", "u">>)
    [] v = "Ui" -> Lit(<<"u", "i">>)

\* Consonant::new
NewConsonant(basic, medial) == [basic |-> basic, medial |-> medial]

\* Vowel::new
NewVowel(basic, virama, tone) ==
  [basic |-> basic, virama |-> virama, tone |-> tone]

\* Vowel::to_mlcts with the tone mark written before the virama letter.
VowelToMlctsToneFirst(v) ==
  LET result == BasicVowelToMlcts(v.basic)
      virama == IF v.virama # None THEN ViramaToMlcts(v.virama) ELSE <<>>
      tone == IF v.tone # None THEN ToneToMlcts(v.tone) ELSE <<>>
  IN  result \o tone \o virama

\* Vowel::to_mlcts
VowelToMlcts(v) ==
  LET result == BasicVowelToMlcts(v.basic)
      virama == IF v.virama # None THEN ViramaToMlcts(v.virama) ELSE <<>>
      tone == IF v.tone # None THEN ToneToMlcts(v.tone) ELSE <<>>
  IN  result \o virama \o tone

\* Option<BaseSyllable>: None is the empty sequence, Some(b) is <<b>>.
NoBottom == <<>>

\* Syllable::new
NewSyllable(consonant, vowel, bottom_syllable) ==
  [consonant |-> consonant, vowel |-> vowel,
   bottom_syllable |-> bottom_syllable]

\* impl Into<BaseSyllable> for Syllable with the vowel left at its default.
IntoBaseSyllableWithoutVowel(s) ==
  [consonant |-> s.consonant, vowel |-> NewVowel("A", None, None)]

\* impl Into<BaseSyllable> for Syllable
IntoBaseSyllable(s) == [consonant |-> s.consonant, vowel |-> s.vowel]

\* impl Into<Syllable> for BaseSyllable
IntoSyllable(b) == NewSyllable(b.consonant, b.vowel, NoBottom)

\* Syllable::to_mlcts
SyllableToMlcts(s) ==
  LET consonant == ConsonantToMlcts(s.consonant)
      vowel == VowelToMlcts(s.vowel)
      bottom ==
        IF s.bottom_syllable # NoBottom
          THEN LET b == IntoSyllable(s.bottom_syllable[1])
               IN  ConsonantToMlcts(b.consonant) \o VowelToMlcts(b.vowel)
          ELSE <<>>
  IN  consonant \o vowel \o bottom

-----------------------------------------------------------------------------
(* mlcts_from_my: the decomposer.                                          *)

\* A pattern position that matches every char (`_` and `..` in a match arm).
AnyChar == 0..1114111

\* Whether the chars cs match the patterns ps (a set of chars per position).
Matches(cs, ps) == \A i \in 1..Len(ps) : cs[i] \in ps[i]

\* The first row of an ordered match table whose pattern matches, 0 if none.
FirstMatch(rows, cs) ==
  IF \E i \in 1..Len(rows) : Matches(cs, rows[i].pat)
    THEN CHOOSE i \in 1..Len(rows) :
           /\ Matches(cs, rows[i].pat)
           /\ \A j \in 1..(i - 1) : ~Matches(cs, rows[j].pat)
    ELSE 0

\* Result<(T, usize), &str>, and a panic of the call.
Ok(val, len) == [kind |-> "Ok", val |-> <<val>>, len |-> len, err |-> <<>>]
Err(text) == [kind |-> "Err", val |-> <<>>, len |-> 0, err |-> text]
Panic == [kind |-> "Panic", val |-> <<>>, len |-> 0, err |-> <<>>]

\* The medial match with the arm of R W H giving Rw: the H is consumed and
\* left out of the medial.
MedialRowsDropH ==
  LET Row(p1, p2, p3, n, m) ==
        [pat |-> <<p1, p2, p3>>, next |-> n, medial |-> m]
      Y == {MEDIAL_Y}
      R == {MEDIAL_R}
      W == {MEDIAL_W}
      H == {MEDIAL_H}
  IN  << Row(R, W, H, 3, "Rw"),
         Row(Y, W, H, 3, "Hyw"),
         Row(W, H, AnyChar, 2, "Hw"),
         Row(R, W, AnyChar, 2, "Rw"),
         Row(Y, W, AnyChar, 2, "Yw"),
         Row(R, H, AnyChar, 2, "Hr"),
         Row(Y, H, AnyChar, 2, "Hy"),
         Row(W, AnyChar, AnyChar, 1, "W"),
         Row(R, AnyChar, AnyChar, 1, "R"),
         Row(Y, AnyChar, AnyChar, 1, "Y"),
         Row(H, AnyChar, AnyChar, 1, "H"),
         Row(AnyChar, AnyChar, AnyChar, 0, None) >>

\* The arms of the medial match of parse_consonant, in order: the pattern,
\* the number of cursor.next() calls and the medial.
MedialRows ==
  LET Row(p1, p2, p3, n, m) ==
        [pat |-> <<p1, p2, p3>>, next |-> n, medial |-> m]
      Y == {MEDIAL_Y}
      R == {MEDIAL_R}
      W == {MEDIAL_W}
      H == {MEDIAL_H}
  IN  << Row(R, W, H, 3, "Hrw"),
         Row(Y, W, H, 3, "Hyw"),
         Row(W, H, AnyChar, 2, "Hw"),
         Row(R, W, AnyChar, 2, "Rw"),
         Row(Y, W, AnyChar, 2, "Yw"),
         Row(R, H, AnyChar, 2, "Hr"),
         Row(Y, H, AnyChar, 2, "Hy"),
         Row(W, AnyChar, AnyChar, 1, "W"),
         Row(R, AnyChar, AnyChar, 1, "R"),
         Row(Y, AnyChar, AnyChar, 1, "Y"),
         Row(H, AnyChar, AnyChar, 1, "H"),
         Row(AnyChar, AnyChar, AnyChar, 0, None) >>

\* The length parse_consonant returns, counted in chars.
ConsumedChars(inp, rest) == Len(inp) - Len(rest)

\* input.len() - cursor.as_str().len(): the length in bytes.
ConsumedLen(inp, rest) == ByteLen(inp) - ByteLen(rest)

\* parse_consonant: Ok((Consonant, consumed_len)) or Err(input).
ParseConsonant(inp) ==
  LET basic == FromMyAlphabet(CharAt(inp, 1))
  IN  IF basic = None THEN Err(inp)
      ELSE IF basic = "A"
        THEN Ok(NewConsonant("A", None), ConsumedLen(inp, From(inp, 2)))
      ELSE
        LET cs == <<CharAt(inp, 2), CharAt(inp, 3), CharAt(inp, 4)>>
            row == MedialRows[FirstMatch(MedialRows, cs)]
        IN  Ok(NewConsonant(basic, row.medial),
               ConsumedLen(inp, From(inp, 2 + row.next)))

\* The arms of the vowel match of parse_syllable, in order: the pattern,
\* whether the arm returns, the vowel, the amount added to consumed_len and
\* the number of cursor.next() calls.
VowelRows ==
  LET Row(p1, p2, p3, ret, basic, tone, add, n) ==
        [pat |-> <<p1, p2, p3>>, ret |-> ret,
         vowel |-> NewVowel(basic, None, tone), add |-> add, next |-> n]
      E == {EOF_CHAR}
      X == AnyChar
  IN  << Row({VOW_A}, {TONE_HIGH}, E, TRUE, "A", "High", 2, 2),
         Row({VOW_A}, E, E, TRUE, "A", None, 1, 1),
         Row({VOW_A}, X, X, FALSE, "A", None, 1, 1),
         Row({YA}, {ASAT}, E, TRUE, "Ai", None, 2, 2),
         Row({VOW_AI_H}, {TONE_CREAKY}, E, TRUE, "Ai", "Creaky", 2, 2),
         Row({VOW_AI_H}, E, E, TRUE, "Ai", "High", 1, 1),
         Row({VOW_E}, {VOW_A}, {ASAT}, TRUE, "Au", None, 3, 3),
         Row({VOW_E}, {VOW_A}, {TONE_CREAKY}, TRUE, "Au", "Creaky", 3, 3),
         Row({VOW_E}, {VOW_A}, E, TRUE, "Au", None, 2, 2),
         Row({VOW_E}, {VOW_A}, X, FALSE, "Au", None, 2, 2),
         Row({VOW_U}, E, E, TRUE, "U", None, 1, 1),
         Row({VOW_U}, {TONE_HIGH}, E, TRUE, "U", "High", 2, 2),
         Row({VOW_U}, {TONE_CREAKY}, E, TRUE, "U", None, 1, 1),
         Row({VOW_U_CREAKY}, X, X, FALSE, "U", "Creaky", 1, 1),
         Row({VOW_I_CREAKY}, {VOW_U}, {TONE_HIGH}, TRUE, "Ui", "High", 3, 3),
         Row({VOW_I_CREAKY}, {VOW_U}, {TONE_CREAKY}, TRUE, "Ui", "Creaky",
             3, 3),
         Row({VOW_I_CREAKY}, {VOW_U}, E, TRUE, "Ui", None, 2, 2),
         Row({VOW_I_CREAKY}, {VOW_U}, X, FALSE, "Ui", None, 2, 2),
         Row({VOW_I}, E, E, TRUE, "I", None, 1, 1),
         Row({VOW_I}, {TONE_HIGH}, E, TRUE, "I", "High", 2, 2),
         Row({VOW_I_CREAKY}, E, E, TRUE, "I", None, 1, 1),
         Row({VOW_I_CREAKY}, X, X, FALSE, "I", None, 1, 1),
         Row({VOW_E}, {TONE_HIGH}, E, TRUE, "E", "High", 2, 2),
         Row({VOW_E}, {TONE_CREAKY}, E, TRUE, "E", "Creaky", 2, 2),
         Row({VOW_E}, E, E, TRUE, "E", None, 1, 1),
         Row({VOW_E}, X, X, FALSE, "E", None, 1, 1),
         Row(X, X, X, FALSE, "A", None, 0, 0) >>

\* The arms of the closure match of parse_syllable, in order: the pattern
\* (top_consonant, sign, virama_sign_or_bottom_consonant, extra_char), what
\* the arm does, the virama and tone it sets, the amount it adds to
\* consumed_len and the number of cursor.next() calls before a recursive
\* parse.
ClosureRows ==
  LET Row(p1, p2, p3, p4, kind, virama, tone, add, n) ==
        [pat |-> <<p1, p2, p3, p4>>, kind |-> kind, virama |-> virama,
         tone |-> tone, add |-> add, next |-> n]
      E == {EOF_CHAR}
      X == AnyChar
      Final(top, virama) ==
        Row(top, {ASAT}, E, E, "final", virama, None, 2, 0)
      FinalTone(top, mark, virama, tone) ==
        Row(top, {ASAT}, {mark}, E, "final", virama, tone, 3, 0)
      Stack(top, bottoms, virama) ==
        Row(top, {STACK_SIGN}, bottoms, X, "stack", virama, None, 2, 1)
  IN  << Final({KA}, "K"),
         Stack({KA}, {KA, KHA}, "K"),
         Stack({GA}, {GA, GHA}, "G"),
         Row({NGA}, {ASAT}, {STACK_SIGN}, E, "invalid", None, None, 0, 0),
         Row({NGA}, {ASAT}, {STACK_SIGN}, X, "stack", "Ng", None, 2, 2),
         FinalTone({NGA}, COLON, "Ng", "High"),
         FinalTone({NGA}, DOT, "Ng", "Creaky"),
         Final({CA}, "C"),
         Stack({CA}, {CA, CHA}, "C"),
         Stack({JA}, {JA, JHA}, "J"),
         Final({NNYA, NYA}, "Ny"),
         FinalTone({NNYA, NYA}, DOT, "Ny", "Creaky"),
         FinalTone({NNYA, NYA}, COLON, "Ny", "High"),
         Stack({NNYA, NYA}, {CA, JA}, "Ny"),
         Final({TTA}, "T"),
         Stack({TTA}, {TTA, TTHA}, "T"),
         Stack({DDA}, {DDA, DDHA}, "D"),
         Final({NNA}, "N"),
         Stack({NNA}, {DDA}, "N"),
         Final({TA}, "T"),
         Stack({TA}, {TA}, "T"),
         Stack({THA}, {THA}, "Ht"),
         Stack({DA}, {DA}, "D"),
         Final({NA}, "N"),
         FinalTone({NA}, COLON, "N", "High"),
         FinalTone({NA}, DOT, "N", "Creaky"),
         Stack({NA}, {TA, THA, DA, DHA, NA}, "N"),
         Final({PA}, "P"),
         Stack({PA}, {PA}, "P"),
         Stack({BA}, {BA, BHA}, "B"),
         Final({MA}, "M"),
         FinalTone({MA}, COLON, "M", "High"),
         FinalTone({MA}, DOT, "M", "Creaky"),
         Stack({MA}, {PA, BA, BHA, MA}, "M"),
         Row({GREAT_SA}, X, X, X, "great_sa", "S", None, 1, 0),
         Stack({LA}, {LA}, "L") >>

\* The closure match with the top consonant tested in place of the bottom
\* consonant of a stack: KA over GA is taken by the arm of KA over KA.
ClosureArmAnyBottom(top_consonant, sign, bottom, extra_char) ==
  FirstMatch(ClosureRows,
             <<top_consonant, sign,
               IF sign = STACK_SIGN /\ bottom \in KA..LETTER_A
                 THEN top_consonant ELSE bottom,
               extra_char>>)

\* match (top_consonant, sign, virama_sign_or_bottom_consonant, extra_char):
\* the arm taken, 0 for `_`.
ClosureArm(top_consonant, sign, virama_sign_or_bottom_consonant, extra_char) ==
  FirstMatch(ClosureRows,
             <<top_consonant, sign, virama_sign_or_bottom_consonant,
               extra_char>>)

\* Whether byte offset n of text s falls between two chars (or at an end).
IsCharBoundary(s, n) == \E k \in 0..Len(s) : ByteLen(SubSeq(s, 1, k)) = n

\* &s[n ..] for a byte offset n that is a char boundary.
SliceFrom(s, n) ==
  From(s, 1 + CHOOSE k \in 0..Len(s) : ByteLen(SubSeq(s, 1, k)) = n)

\* A closure arm that joins a bottom but leaves vowel.virama unset.
StackedForgetsVirama(consonant, vowel, virama, bottom) ==
  NewSyllable(consonant, vowel, <<IntoBaseSyllable(bottom)>>)

\* vowel.virama = Some(..); Syllable::new(consonant, vowel, Some(c.0.into()))
Stacked(consonant, vowel, virama, bottom) ==
  NewSyllable(consonant, [vowel EXCEPT !.virama = virama],
              <<IntoBaseSyllable(bottom)>>)

\* vowel.virama = Some(..); vowel.tone = ..; Syllable::new(consonant, vowel,
\* None)
Closed(consonant, vowel, virama, tone) ==
  NewSyllable(consonant,
              [vowel EXCEPT !.virama = virama,
                            !.tone = IF tone # None THEN tone ELSE @],
              NoBottom)

\* The great-sa arm re-parsing SA, the ligature and the remainder.
GreatSaKept(rest) == <<SA, GREAT_SA>> \o rest

\* The great-sa arm with the ligature itself put before the remainder.
GreatSaUnexpanded(rest) == <<GREAT_SA>> \o rest

\* format!("\u{101e}{}", cursor.as_str()) of the great-sa arm.
GreatSaExpanded(rest) == <<SA>> \o rest

\* The failure of a recursive parse passed on as it is, with the span of the
\* inner call.
BottomErrInner(syllable, c) == Err(c.err)

\* Err(_) => return Err(syllable): the failure c of the recursive parse is
\* answered with the span of this call.
BottomErr(syllable, c) == Err(syllable)

RECURSIVE ParseSyllable(_)
\* parse_syllable: Ok((Syllable, consumed_len)), Err(syllable) or a panic.
ParseSyllable(syllable) ==
  LET pcons == ParseConsonant(syllable)
  IN  IF pcons.kind = "Err" THEN Err(pcons.err)
      ELSE
        LET consonant == pcons.val[1]
            len0 == pcons.len
        IN  IF len0 = ByteLen(syllable)
              THEN Ok(NewSyllable(consonant, NewVowel("A", None, None),
                                  NoBottom), len0)
            ELSE IF ~IsCharBoundary(syllable, len0) THEN Panic
            ELSE
              LET cur0 == SliceFrom(syllable, len0)
                  vrow == VowelRows[FirstMatch(VowelRows,
                            <<CharAt(cur0, 1), CharAt(cur0, 2),
                              CharAt(cur0, 3)>>)]
                  consumed_len == len0 + vrow.add
              IN  IF vrow.ret
                    THEN Ok(NewSyllable(consonant, vrow.vowel, NoBottom),
                            consumed_len)
                  ELSE
                    LET cur1 == From(cur0, 1 + vrow.next)
                        top_consonant == CharAt(cur1, 1)
                        cur2 == From(cur1, 2)
                        i == ClosureArm(top_consonant, CharAt(cur2, 1),
                                        CharAt(cur2, 2), CharAt(cur2, 3))
                        row == ClosureRows[i]
                    IN  IF i = 0 \/ row.kind = "invalid" THEN Err(syllable)
                        ELSE IF row.kind = "final"
                          THEN Ok(Closed(consonant, vrow.vowel, row.virama,
                                         row.tone),
                                  consumed_len + row.add)
                        ELSE
                          LET c == IF row.kind = "great_sa"
                                     THEN ParseSyllable(GreatSaExpanded(cur2))
                                     ELSE ParseSyllable(
                                            From(cur2, 1 + row.next))
                          IN  IF c.kind = "Panic" THEN Panic
                              ELSE IF c.kind = "Err" THEN BottomErr(syllable, c)
                              ELSE Ok(Stacked(consonant, vrow.vowel,
                                              row.virama, c.val[1]),
                                      IF row.kind = "great_sa"
                                        THEN consumed_len + row.add
                                        ELSE consumed_len + row.add + c.len)

\* parse_syllable at its closure match: the consonant, the vowel carried
\* forward, top_consonant and cursor.as_str() after it, as <<m>>; <<>> when
\* the call returns (or panics) before the match.
AtClosure(syllable) ==
  LET pcons == ParseConsonant(syllable)
  IN  IF \/ pcons.kind = "Err"
         \/ pcons.len = ByteLen(syllable)
         \/ ~IsCharBoundary(syllable, pcons.len)
        THEN <<>>
      ELSE
        LET cur0 == SliceFrom(syllable, pcons.len)
            vrow == VowelRows[FirstMatch(VowelRows,
                      <<CharAt(cur0, 1), CharAt(cur0, 2), CharAt(cur0, 3)>>)]
            cur1 == From(cur0, 1 + vrow.next)
        IN  IF vrow.ret THEN <<>>
            ELSE <<[consonant |-> pcons.val[1], vowel |-> vrow.vowel,
                    top_consonant |-> CharAt(cur1, 1),
                    rest |-> From(cur1, 2)]>>

\* The chars the second alternative of the split_syllables regex matches:
\* [a-zA-Z0-9...] with the independent vowels, section symbols, Myanmar
\* digits and punctuation, the ASCII punctuation ranges and \s.
IsBreakChar(c) ==
  \/ c \in 97..122 \/ c \in 65..90 \/ c \in 48..57
  \/ c \in {4131, 4132, 4133, 4134, 4135, 4137, 4138}
  \/ c \in {4172, 4173, 4175}
  \/ c \in 4160..4169
  \/ c \in {4170, 4171}
  \/ c \in 33..47 \/ c \in 58..64 \/ c \in 91..96 \/ c \in 123..126
  \/ c \in 9..13 \/ c \in {32, 133, 160, 5760, 8232, 8233, 8239, 8287, 12288}
  \/ c \in 8192..8202

\* Whether the split_syllables regex matches at the i-th char of s:
\* (?<!STACK_SIGN)([KA-LETTER_A])(?![ASAT STACK_SIGN]) or a break char.
IsMatch(s, i) ==
  \/ /\ s[i] \in KA..LETTER_A
     /\ ~(i > 1 /\ s[i - 1] = STACK_SIGN)
     /\ ~(i < Len(s) /\ s[i + 1] \in {ASAT, STACK_SIGN})
  \/ IsBreakChar(s[i])

RECURSIVE FindIter(_, _)
\* find_iter(input).map(|m| m.start()): the byte offsets of the matches
\* from the i-th char on, in order.
FindIter(s, i) ==
  IF i > Len(s) THEN <<>>
  ELSE IF IsMatch(s, i)
    THEN <<ByteLen(SubSeq(s, 1, i - 1))>> \o FindIter(s, i + 1)
    ELSE FindIter(s, i + 1)

\* &s[a .. b] for byte offsets a <= b that are char boundaries.
Slice(s, a, b) ==
  SubSeq(s,
         1 + CHOOSE k \in 0..Len(s) : ByteLen(SubSeq(s, 1, k)) = a,
         CHOOSE k \in 0..Len(s) : ByteLen(SubSeq(s, 1, k)) = b)

\* split_syllables with the last span left out.
SplitDropsLast(s) ==
  LET matches == FindIter(s, 1)
  IN  [k \in 1..(Len(matches) - 1) |-> Slice(s, matches[k], matches[k + 1])]

\* split_syllables: matches.windows(2) mapped to slices, chained with the
\* slice from the last match to the end.
SplitSyllables(s) ==
  LET matches == FindIter(s, 1)
  IN  [k \in 1..(Len(matches) - 1) |-> Slice(s, matches[k], matches[k + 1])]
      \o (IF matches # <<>>
            THEN <<SliceFrom(s, matches[Len(matches)])>> ELSE <<>>)

\* The closure of from_my's map that returns the MLCTS also on Err.
MapSpanNoRecovery(s, r) ==
  IF r.kind = "Err" THEN <<>> ELSE SyllableToMlcts(r.val[1])

\* The closure of from_my's map, given the span and the result r of
\* parse_syllable on it.
MapSpan(s, r) ==
  IF r.kind = "Err" THEN s ELSE SyllableToMlcts(r.val[1])

-----------------------------------------------------------------------------
(* mlcts_tokenizer: the cursor-based lexer, after sections 3 and 4.2 of    *)
(* the specification.                                                      *)

\* MedialDiacritic::combine_medial_diacritics: Ok(x) is <<x>>, Err is <<>>.
CombineMedialDiacritics(first, second) ==
  CASE first # None /\ second # None ->
         IF Combine(first, second) # None
           THEN <<Combine(first, second)>> ELSE <<>>
    [] first # None /\ second = None -> <<first>>
    [] first = None /\ second # None -> <<second>>
    [] OTHER -> <<None>>

\* Whether text t starts with the text p.
StartsWith(t, p) == Len(t) >= Len(p) /\ SubSeq(t, 1, Len(p)) = p

\* u8::is_ascii_whitespace
IsAsciiWhitespace(c) == c \in {9, 10, 12, 13, 32}

\* The MLCTS consonant letters, the two-letter digraphs before the single
\* letters.
ConsonantLetters ==
  <<"Hk", "Hc", "Ht", "Hp", "Bh", "Dh", "Gh", "Jh", "Ny", "Ng", "K", "G",
    "C", "J", "T", "D", "N", "P", "B", "M", "Y", "R", "L", "W", "S", "H">>

\* The Virama-legal finals, the longest spellings first.
ViramaLetters ==
  <<"Ng", "Ny", "Ht", "K", "G", "C", "J", "T", "D", "N", "P", "B", "M", "S",
    "L">>

\* The MLCTS vowels, ai, au, ui before a, i, u, e.
VowelLetters == <<"Ai", "Au", "Ui", "A", "I", "U", "E">>

ConsonantSpellings ==
  [k \in 1..Len(ConsonantLetters) |->
     BasicConsonantToMlcts(ConsonantLetters[k])]

ViramaSpellings ==
  [k \in 1..Len(ViramaLetters) |-> ViramaToMlcts(ViramaLetters[k])]

VowelSpellings ==
  [k \in 1..Len(VowelLetters) |-> BasicVowelToMlcts(VowelLetters[k])]

\* The entry of an ordered table with the least index among indices, or
\* None: the greedy longest match.
LongestMatch(table, indices) ==
  IF indices = {} THEN None
  ELSE table[CHOOSE i \in indices : \A j \in indices : i <= j]

\* The number of chars an optional one-char mark takes.
Width(mark) == IF mark = None THEN 0 ELSE 1

\* The number of chars an optional letter of a table takes.
LetterWidth(table, spellings, letter) ==
  IF letter = None THEN 0
  ELSE Len(spellings[CHOOSE k \in 1..Len(table) : table[k] = letter])

\* The text t without its first n chars.
Skip(t, n) == From(t, n + 1)

\* consonant_letter: the longest consonant spelling at the start of t.
ConsonantAt(t) ==
  LongestMatch(ConsonantLetters,
               {i \in 1..Len(ConsonantLetters) :
                  StartsWith(t, ConsonantSpellings[i])})

\* vowel_letters: the longest vowel spelling at the start of t.
VowelAt(t) ==
  LongestMatch(VowelLetters,
               {i \in 1..Len(VowelLetters) :
                  StartsWith(t, VowelSpellings[i])})

\* An onset: the consonant, the number of chars it takes, and whether an
\* onset was found at all.
Onset(basic, medial, len, ok) ==
  [consonant |-> NewConsonant(basic, medial), len |-> len, ok |-> ok]

\* The medial of an optional h prefix, an optional y or r and an optional w.
MedialOf(h, yr, w) ==
  CombineMedialDiacritics(CombineMedialDiacritics(h, yr)[1], w)[1]

\* opt_medial_tail, its w: the onset is complete.
OnsetW(basic, h, yr, w, n) ==
  Onset(basic, MedialOf(h, yr, w), n + Width(w), TRUE)

\* opt_medial_tail, after its y or r.
OnsetYR(t, basic, h, yr, n) ==
  OnsetW(basic, h, yr,
         IF CharAt(t, n + Width(yr) + 1) = Chr["w"] THEN "W" ELSE None,
         n + Width(yr))

\* opt_medial_tail after the n chars of the prefix and the consonant
\* letter: y or r, then w.
OnsetTail(t, basic, h, n) ==
  OnsetYR(t, basic, h,
          CASE CharAt(t, n + 1) = Chr["y"] -> "Y"
            [] CharAt(t, n + 1) = Chr["r"] -> "R"
            [] OTHER -> None,
          n)

\* An h that is no part of a digraph: the H of the medial when a consonant
\* letter c1 follows it, the consonant H otherwise.
OnsetAfterH(t, c1) ==
  IF c1 = None THEN OnsetTail(t, "H", None, 1)
  ELSE OnsetTail(t, c1, "H",
                 1 + LetterWidth(ConsonantLetters, ConsonantSpellings, c1))

\* The onset of a text whose longest consonant spelling is c0.  A text
\* that starts with a vowel has the consonant A, which takes no letter.
OnsetFrom(t, c0) ==
  IF c0 = None THEN Onset("A", None, 0, VowelAt(t) # None)
  ELSE IF c0 = "H" THEN OnsetAfterH(t, ConsonantAt(Tail(t)))
  ELSE OnsetTail(t, c0, None,
                 LetterWidth(ConsonantLetters, ConsonantSpellings, c0))

\* opt_h_prefix consonant_letter opt_medial_tail at the start of t.
OnsetAt(t) == OnsetFrom(t, ConsonantAt(t))

\* Whether the text t starts a syllable that spells its vowel: the letters
\* of a candidate final then begin the next syllable (greedy on syllable
\* start).
StartsVowelledSyllable(t) ==
  OnsetAt(t).ok /\ VowelAt(Skip(t, OnsetAt(t).len)) # None

\* Whether the text can follow an accepted final: a tone mark, whitespace,
\* the end of the input or the start of another syllable.
CanFollowVirama(t) ==
  \/ t = <<>>
  \/ CharAt(t, 1) \in {Chr[":"], Chr["."]}
  \/ IsAsciiWhitespace(CharAt(t, 1))
  \/ OnsetAt(t).ok

\* The acceptance of a final with no regard to a tone mark after K, C, T
\* and P.
ViramaAcceptedBeforeTone(t, v) ==
  /\ StartsWith(t, v)
  /\ ~StartsVowelledSyllable(t)
  /\ CanFollowVirama(Skip(t, Len(v)))

\* Whether the final of spelling v at the start of t is accepted as the
\* virama: K, C, T and P take no tone mark.
ViramaAccepted(t, v) ==
  /\ StartsWith(t, v)
  /\ ~StartsVowelledSyllable(t)
  /\ CanFollowVirama(Skip(t, Len(v)))
  /\ ~(v \in {Lit(<<"k">>), Lit(<<"c">>), Lit(<<"t">>), Lit(<<"p">>)}
       /\ CharAt(t, Len(v) + 1) \in {Chr[":"], Chr["."]})

\* opt_virama: the first final of the table that is accepted at the start
\* of t, or None.
ViramaAt(t) ==
  LongestMatch(ViramaLetters,
               {i \in 1..Len(ViramaLetters) :
                  ViramaAccepted(t, ViramaSpellings[i])})

\* opt_tone
ToneAt(t) ==
  CASE CharAt(t, 1) = Chr[":"] -> "High"
    [] CharAt(t, 1) = Chr["."] -> "Creaky"
    [] OTHER -> None

\* The syllable parse, after opt_tone: n chars before the tone mark.
SyllableTone(o, v, virama, tone, n) ==
  [ok |-> o.ok,
   syllable |-> NewSyllable(o.consonant,
                            NewVowel(IF v = None THEN "A" ELSE v, virama,
                                     tone),
                            NoBottom),
   len |-> n + Width(tone)]

\* The syllable parse, after opt_virama: n chars before the final.
SyllableVirama(t, o, v, virama, n) ==
  SyllableTone(o, v, virama,
               ToneAt(Skip(t, n + LetterWidth(ViramaLetters, ViramaSpellings,
                                               virama))),
               n + LetterWidth(ViramaLetters, ViramaSpellings, virama))

\* The syllable parse, after vowel_letters: n chars before the vowel; no
\* vowel letter is the implicit vowel A.
SyllableVowel(t, o, v, n) ==
  SyllableVirama(t, o, v,
                 ViramaAt(Skip(t, n + LetterWidth(VowelLetters,
                                                  VowelSpellings, v))),
                 n + LetterWidth(VowelLetters, VowelSpellings, v))

\* The syllable parse, after the onset o.
SyllableOnset(t, o) == SyllableVowel(t, o, VowelAt(Skip(t, o.len)), o.len)

\* The syllable parse at the start of t: the syllable and its length, with
\* ok FALSE when no syllable starts there.
SyllableAt(t) == SyllableOnset(t, OnsetAt(t))

\* The length of the run of ASCII whitespace at the start of t.
RECURSIVE WhitespaceRun(_)
WhitespaceRun(t) ==
  IF t # <<>> /\ IsAsciiWhitespace(Head(t))
    THEN 1 + WhitespaceRun(Tail(t)) ELSE 0

\* Token { kind, start, len }; the syllable of a Syllable token is <<s>>.
Token(kind, syllable, start, len) ==
  [kind |-> kind, syllable |-> syllable, start |-> start, len |-> len]

\* An Unknown token that takes nothing of the input.
UnknownTokenEmpty(c, start) == Token("Unknown", <<>>, start, 0)

\* Rule 4: one Unicode scalar as an Unknown token.
UnknownToken(c, start) == Token("Unknown", <<>>, start, Utf8Len(c))

\* An end-of-input token that still has a length.
EndOfInputTokenNonEmpty(start) == Token("EndOfInput", <<>>, start, 1)

\* Rule 1: the EndOfInput token, of length 0.
EndOfInputToken(start) == Token("EndOfInput", <<>>, start, 0)

\* Rules 3 and 4: the syllable parse s of the text at cur when it is ok,
\* else the char c as Unknown.
SyllableOrUnknown(s, c, cur) ==
  IF s.ok THEN Token("Syllable", <<s.syllable>>, cur, s.len)
  ELSE UnknownToken(c, cur)

\* Rules 2 to 4 on the non-empty rest t of the input at byte offset cur.
TokenAt(t, cur) ==
  IF IsAsciiWhitespace(Head(t))
    THEN Token("Whitespace", <<>>, cur, WhitespaceRun(t))
  ELSE SyllableOrUnknown(SyllableAt(t), Head(t), cur)

\* Tokenizer::next_token at byte offset cur of text inp: the scanning rules
\* in order.
NextToken(inp, cur) ==
  IF cur >= ByteLen(inp) THEN EndOfInputToken(cur)
  ELSE TokenAt(SliceFrom(inp, cur), cur)

\* An iterator that yields every token next_token returns.
TokenizeYieldsAll(token) == TRUE

\* tokenize: the iterator yields the tokens before EndOfInput and ends there.
TokenizeYields(token) == token.kind # "EndOfInput"

\* substring(s, start, length) of the demo page: start and length are
\* counted in chars; an index past the end gives the start or the end of s.
Substring(s, start, length) ==
  LET end == IF start + length < Len(s) THEN start + length ELSE Len(s)
      first == IF start < Len(s) THEN start ELSE 0
  IN  SubSeq(s, first + 1, end)

\* token_view(t, input): the element of the token, or a panic.
TokenViewOf(t, inp) ==
  CASE t.kind = "Syllable" -> [class |-> "syllable", child |-> t.syllable]
    [] t.kind = "Unknown" ->
         [class |-> "unknown", child |-> Substring(inp, t.start, t.len)]
    [] t.kind = "Whitespace" -> [class |-> "whitespace", child |-> <<160>>]
    [] OTHER -> [class |-> "unreachable", child |-> <<>>]

-----------------------------------------------------------------------------
(* Bounds and the inputs drawn within them.                                *)

\* The longest text given to from_my.
MaxInputLen == 4

\* The longest span given to parse_syllable.
MaxSpanLen == 4

\* The texts of at most n chars over the chars of A.
Texts(A, n) == UNION {[1..k -> A] : k \in 0..n}

\* The chars from_my's inputs are drawn from: two consonants, a vowel sign,
\* asat, the stack sign, the ASCII letter a, a space and a two-byte char
\* that the split_syllables regex does not match.
InputChars == {KA, TA, VOW_A, ASAT, STACK_SIGN, 97, 32, 233}

\* The chars parse_syllable's spans are drawn from.
SpanChars ==
  {KA, NGA, MEDIAL_Y, VOW_A, ASAT, STACK_SIGN, TONE_HIGH, GREAT_SA}

\* No parse_syllable call has returned yet.
NoResult == [kind |-> "None", val |-> <<>>, len |-> 0, err |-> <<>>]

-----------------------------------------------------------------------------
(* from_my as a state machine: split, map every span, join.                *)

Init ==
  /\ pc = "from_my"
  /\ input \in Texts(InputChars, MaxInputLen)
  /\ spans = <<>>
  /\ idx = 0
  /\ parts = <<>>
  /\ output = <<>>
  /\ parsed = NoResult
  /\ args = <<>>
  /\ mlcts = <<>>
  /\ combined = None
  /\ cursor = 0
  /\ tokens = <<>>

\* split_syllables(input).into_iter()
FromMySplit ==
  /\ pc = "from_my"
  /\ spans' = SplitSyllables(input)
  /\ idx' = 1
  /\ pc' = "map"
  /\ UNCHANGED <<input, parts, output, parsed, args, mlcts, combined,
                 cursor, tokens>>

\* One call of the map closure; a panic of parse_syllable unwinds from_my.
FromMyMap ==
  /\ pc = "map"
  /\ idx <= Len(spans)
  /\ \E r \in {ParseSyllable(spans[idx])} :
       /\ parsed' = r
       /\ IF r.kind = "Panic"
            THEN /\ pc' = "panic"
                 /\ UNCHANGED <<parts, idx>>
            ELSE /\ parts' = Append(parts, MapSpan(spans[idx], r))
                 /\ idx' = idx + 1
                 /\ pc' = "map"
  /\ UNCHANGED <<input, spans, output, args, mlcts, combined, cursor,
                 tokens>>

\* .collect::<Vec<String>>().join("")
FromMyJoin ==
  /\ pc = "map"
  /\ idx > Len(spans)
  /\ output' = Concat(parts)
  /\ pc' = "done"
  /\ UNCHANGED <<input, spans, idx, parts, parsed, args, mlcts, combined,
                 cursor, tokens>>

Next == FromMySplit \/ FromMyMap \/ FromMyJoin

Spec == Init /\ [][Next]_vars

-----------------------------------------------------------------------------
(* parse_syllable applied to every span within the bounds.                 *)

InitParse ==
  /\ pc = "parse_syllable"
  /\ input \in Texts(SpanChars, MaxSpanLen)
  /\ spans = <<>>
  /\ idx = 0
  /\ parts = <<>>
  /\ output = <<>>
  /\ parsed = NoResult
  /\ args = <<>>
  /\ mlcts = <<>>
  /\ combined = None
  /\ cursor = 0
  /\ tokens = <<>>

ParseSyllableCall ==
  /\ pc = "parse_syllable"
  /\ parsed' = ParseSyllable(input)
  /\ pc' = "parsed"
  /\ UNCHANGED <<input, spans, idx, parts, output, args, mlcts, combined,
                 cursor, tokens>>

NextParse == ParseSyllableCall

SpecParse == InitParse /\ [][NextParse]_vars

-----------------------------------------------------------------------------
(* parse_consonant applied to a first char followed by medial marks.       *)

\* The largest number of chars after the first char of the input.
MaxMarks == 4

\* The first chars: consonants, the letter A, a vowel sign and a medial.
FirstChars == {KA, MA, HA, LETTER_A, VOW_A, MEDIAL_H}

\* The chars after the first char: the four medial marks and a vowel sign.
MarkChars == {MEDIAL_Y, MEDIAL_R, MEDIAL_W, MEDIAL_H, VOW_A}

InitConsonant ==
  /\ pc = "parse_consonant"
  /\ input \in {<<>>} \cup {<<c>> \o marks : c \in FirstChars,
                                            marks \in Texts(MarkChars, MaxMarks)}
  /\ spans = <<>>
  /\ idx = 0
  /\ parts = <<>>
  /\ output = <<>>
  /\ parsed = NoResult
  /\ args = <<>>
  /\ mlcts = <<>>
  /\ combined = None
  /\ cursor = 0
  /\ tokens = <<>>

\* parse_consonant(input): the result is kept in parsed.
ParseConsonantCall ==
  /\ pc = "parse_consonant"
  /\ parsed' = ParseConsonant(input)
  /\ pc' = "consonant_parsed"
  /\ UNCHANGED <<input, spans, idx, parts, output, args, mlcts, combined,
                 cursor, tokens>>

NextConsonant == ParseConsonantCall

SpecConsonant == InitConsonant /\ [][NextConsonant]_vars

-----------------------------------------------------------------------------
(* parse_syllable and from_my applied to spans made of an onset, a vowel   *)
(* section and a closure, as the match tables of parse_syllable read them. *)

\* The chars BasicConsonant::from_my_alphabet matches.
ConsonantChars == KA..LETTER_A

\* The vowel sections of the vowel match: the patterns of its arms, and the
\* spellings with U+102F the comments of the arms give.
VowelSections ==
  { <<VOW_A, TONE_HIGH>>, <<VOW_A>>, <<YA, ASAT>>,
    <<VOW_AI_H, TONE_CREAKY>>, <<VOW_AI_H>>,
    <<VOW_E, VOW_A, ASAT>>, <<VOW_E, VOW_A, TONE_CREAKY>>, <<VOW_E, VOW_A>>,
    <<VOW_U>>, <<VOW_U, TONE_HIGH>>, <<VOW_U, TONE_CREAKY>>,
    <<VOW_U_CREAKY>>,
    <<VOW_I_CREAKY, VOW_U, TONE_HIGH>>, <<VOW_I_CREAKY, VOW_U, TONE_CREAKY>>,
    <<VOW_I_CREAKY, VOW_U>>,
    <<VOW_I_CREAKY, VOW_U_CREAKY, TONE_HIGH>>,
    <<VOW_I_CREAKY, VOW_U_CREAKY, TONE_CREAKY>>,
    <<VOW_I_CREAKY, VOW_U_CREAKY>>,
    <<VOW_I>>, <<VOW_I, TONE_HIGH>>, <<VOW_I_CREAKY>>,
    <<VOW_E, TONE_HIGH>>, <<VOW_E, TONE_CREAKY>>, <<VOW_E>> }

\* The vowel sections a closure is written after: none (the implicit
\* vowel) and the sections of the arms that do not return.
OpenVowelSections ==
  { <<>>, <<VOW_A>>, <<VOW_E, VOW_A>>, <<VOW_U_CREAKY>>,
    <<VOW_I_CREAKY, VOW_U>>, <<VOW_I_CREAKY, VOW_U_CREAKY>>,
    <<VOW_I_CREAKY>>, <<VOW_E>> }

\* The tone marks written after an asat: the Myanmar marks, and the ASCII
\* ':' and '.' of the closure arms.
ToneMarks == {<<>>, <<TONE_HIGH>>, <<TONE_CREAKY>>, <<COLON>>, <<DOT>>}

\* A final: a consonant, the asat and a tone mark or none.
FinalClosures ==
  {<<top, ASAT>> \o mark : top \in ConsonantChars, mark \in ToneMarks}

\* What is written from the bottom consonant of a stack on.
BottomTails == {<<>>, <<VOW_I, TONE_HIGH>>, <<ASAT>>}

\* A stack: a consonant, the stack sign and nothing, a char that is no
\* consonant, or a bottom consonant and its vowel.
StackClosures ==
  {<<top, STACK_SIGN>> : top \in ConsonantChars}
    \cup {<<top, STACK_SIGN, c>> : top \in ConsonantChars,
                                   c \in {VOW_A, ASAT, STACK_SIGN}}
    \cup {<<top, STACK_SIGN, bottom>> \o tail :
            top \in ConsonantChars, bottom \in ConsonantChars,
            tail \in BottomTails}

\* The kinzi: NGA, asat, the stack sign and a bottom or none.
KinziClosures ==
  {<<NGA, ASAT, STACK_SIGN>>}
    \cup {<<NGA, ASAT, STACK_SIGN, bottom>> \o tail :
            bottom \in ConsonantChars \cup {VOW_A, GREAT_SA},
            tail \in BottomTails \cup {<<ASAT>>}}

\* A stack whose bottom carries a stack of its own, and the kinzi over one.
NestedStackClosures ==
  {<<top, STACK_SIGN, bottom, top2, STACK_SIGN, bottom2>> :
     top \in {KA, TA, PA, MA}, bottom \in {KA, TA, PA, MA},
     top2 \in {KA, TA, PA, MA}, bottom2 \in {KA, TA, PA, MA}}
    \cup {<<NGA, ASAT, STACK_SIGN, KA, KA, STACK_SIGN, KA>>}

\* A vowel section that ends with an asat or a dot-below, with chars
\* written after it.
TrailingSections ==
  {v \o t : v \in {<<VOW_E, VOW_A, ASAT>>, <<VOW_E, VOW_A, TONE_CREAKY>>},
            t \in {<<TONE_HIGH>>, <<TONE_CREAKY>>, <<KA>>, <<KA, ASAT>>,
                   <<VOW_I>>}}

\* What is written after a great sa, or after its expansion.
GreatSaTails ==
  { <<>>, <<VOW_A>>, <<VOW_A, TONE_HIGH>>, <<VOW_U_CREAKY>>, <<MEDIAL_Y>>,
    <<VOW_E, VOW_A, ASAT>>, <<KA, ASAT>>, <<NA, ASAT>>, <<ASAT>>,
    <<STACK_SIGN, SA>>, <<TONE_HIGH>>, <<GREAT_SA>>, <<KA>> }

\* The great sa and its three-char expansion, with what follows.
GreatSaClosures ==
  {top \o tail : top \in {<<GREAT_SA>>, <<SA, STACK_SIGN, SA>>},
                 tail \in GreatSaTails}

\* The spans: every consonant with every vowel section; a few onsets with
\* every open vowel section and every final or great sa; and every stack
\* after the implicit vowel, a carried vowel and a carried toned vowel, also
\* with a second stack below the first.
ShapedSpans ==
  {<<c>> \o v : c \in ConsonantChars, v \in VowelSections \cup {<<>>}}
    \cup {<<c>> \o v : c \in {KA, LETTER_A}, v \in TrailingSections}
    \cup {onset \o v \o closure :
            onset \in {<<KA>>, <<PA>>, <<MA, MEDIAL_Y>>},
            v \in OpenVowelSections,
            closure \in FinalClosures \cup GreatSaClosures}
    \cup {onset \o v \o closure :
            onset \in {<<TA>>, <<LETTER_A>>},
            v \in {<<>>, <<VOW_A>>, <<VOW_U_CREAKY>>},
            closure \in StackClosures \cup KinziClosures
                          \cup NestedStackClosures}

InitShaped ==
  /\ pc \in {"parse_syllable", "from_my"}
  /\ input \in ShapedSpans
  /\ spans = <<>>
  /\ idx = 0
  /\ parts = <<>>
  /\ output = <<>>
  /\ parsed = NoResult
  /\ args = <<>>
  /\ mlcts = <<>>
  /\ combined = None
  /\ cursor = 0
  /\ tokens = <<>>

NextShaped == ParseSyllableCall \/ FromMySplit \/ FromMyMap \/ FromMyJoin

SpecShaped == InitShaped /\ [][NextShaped]_vars

-----------------------------------------------------------------------------
(* The phoneme model's functions applied to every argument.                *)

\* The largest code point given to from_my_alphabet: the chars up to the
\* end of the Myanmar block and past it.
MaxChar == 4607

\* The chars given to from_my_alphabet.
Chars == 0..MaxChar

\* Every Vowel: a basic vowel, a virama or none, a tone or none.
Vowels ==
  {NewVowel(basic, virama, tone) :
     basic \in BasicVowel, virama \in Opt(Virama), tone \in Opt(Tone)}

\* The consonants of the syllables given to Syllable::to_mlcts.
SomeConsonants ==
  {NewConsonant("K", None), NewConsonant("M", "Hyw"), NewConsonant("A", None)}

\* The bottoms of the syllables given to Syllable::to_mlcts.
SomeBottoms ==
  { NoBottom,
    <<IntoBaseSyllable(NewSyllable(NewConsonant("Hk", None),
                                   NewVowel("A", None, None), NoBottom))>>,
    <<IntoBaseSyllable(NewSyllable(NewConsonant("S", "H"),
                                   NewVowel("Ui", "N", "High"), NoBottom))>> }

InitPhoneme ==
  /\ \/ /\ pc = "to_mlcts"
        /\ args \in BasicConsonant \X Opt(MedialDiacritic)
     \/ /\ pc = "combine"
        /\ args \in MedialDiacritic \X MedialDiacritic
     \/ /\ pc \in {"combine_left", "combine_right"}
        /\ args \in MedialDiacritic \X MedialDiacritic \X MedialDiacritic
     \/ /\ pc = "from_my_alphabet"
        /\ args \in {<<c>> : c \in Chars}
     \/ /\ pc = "vowel_to_mlcts"
        /\ args \in {<<v>> : v \in Vowels}
     \/ /\ pc = "syllable_to_mlcts"
        /\ args \in {<<NewSyllable(c, v, b)>> :
                       c \in SomeConsonants, v \in Vowels, b \in SomeBottoms}
  /\ input = <<>>
  /\ spans = <<>>
  /\ idx = 0
  /\ parts = <<>>
  /\ output = <<>>
  /\ parsed = NoResult
  /\ mlcts = <<>>
  /\ combined = None
  /\ cursor = 0
  /\ tokens = <<>>

ConsonantToMlctsCall ==
  /\ pc = "to_mlcts"
  /\ mlcts' = ConsonantToMlcts(NewConsonant(args[1], args[2]))
  /\ pc' = "to_mlcts_done"
  /\ UNCHANGED <<input, spans, idx, parts, output, parsed, args, combined,
                 cursor, tokens>>

CombineCall ==
  /\ pc = "combine"
  /\ combined' = Combine(args[1], args[2])
  /\ pc' = "combine_done"
  /\ UNCHANGED <<input, spans, idx, parts, output, parsed, args, mlcts,
                 cursor, tokens>>

\* a.combine(b) and, when it is Ok, its value combined with c.
CombineLeftNested ==
  /\ pc = "combine_left"
  /\ combined' = IF Combine(args[1], args[2]) = None THEN None
                 ELSE Combine(Combine(args[1], args[2]), args[3])
  /\ pc' = "combine_left_done"
  /\ UNCHANGED <<input, spans, idx, parts, output, parsed, args, mlcts,
                 cursor, tokens>>

\* b.combine(c) and, when it is Ok, a combined with its value.
CombineRightNested ==
  /\ pc = "combine_right"
  /\ combined' = IF Combine(args[2], args[3]) = None THEN None
                 ELSE Combine(args[1], Combine(args[2], args[3]))
  /\ pc' = "combine_right_done"
  /\ UNCHANGED <<input, spans, idx, parts, output, parsed, args, mlcts,
                 cursor, tokens>>

\* BasicConsonant::from_my_alphabet(c): the result is kept in combined.
FromMyAlphabetCall ==
  /\ pc = "from_my_alphabet"
  /\ combined' = FromMyAlphabet(args[1])
  /\ pc' = "from_my_alphabet_done"
  /\ UNCHANGED <<input, spans, idx, parts, output, parsed, args, mlcts,
                 cursor, tokens>>

VowelToMlctsCall ==
  /\ pc = "vowel_to_mlcts"
  /\ mlcts' = VowelToMlcts(args[1])
  /\ pc' = "vowel_to_mlcts_done"
  /\ UNCHANGED <<input, spans, idx, parts, output, parsed, args, combined,
                 cursor, tokens>>

SyllableToMlctsCall ==
  /\ pc = "syllable_to_mlcts"
  /\ mlcts' = SyllableToMlcts(args[1])
  /\ pc' = "syllable_to_mlcts_done"
  /\ UNCHANGED <<input, spans, idx, parts, output, parsed, args, combined,
                 cursor, tokens>>

NextPhoneme ==
  \/ ConsonantToMlctsCall
  \/ CombineCall
  \/ CombineLeftNested
  \/ CombineRightNested
  \/ FromMyAlphabetCall
  \/ VowelToMlctsCall
  \/ SyllableToMlctsCall

SpecPhoneme == InitPhoneme /\ [][NextPhoneme]_vars

-----------------------------------------------------------------------------
(* The tokenizer as a state machine: Tokenizer::new, then next_token       *)
(* called again and again, also after the end of the input.                *)

\* The longest text given to the tokenizer.
MaxTokLen == 3

\* The number of next_token calls followed after the first EndOfInput.
MaxCallsAfterEnd == 2

\* The chars the tokenizer's inputs are drawn from: the letters k, h, y, a,
\* n and g, the tone mark ':', a space and a two-byte char that is no MLCTS
\* letter.
TokChars ==
  {Chr["k"], Chr["h"], Chr["y"], Chr["a"], Chr["n"], Chr["g"], Chr[":"], 32,
   233}

\* Tokenizer::new(input): the cursor at byte offset 0.
InitTok ==
  /\ pc = "tokenize"
  /\ input \in Texts(TokChars, MaxTokLen)
  /\ spans = <<>>
  /\ idx = 0
  /\ parts = <<>>
  /\ output = <<>>
  /\ parsed = NoResult
  /\ args = <<>>
  /\ mlcts = <<>>
  /\ combined = None
  /\ cursor = 0
  /\ tokens = <<>>

\* One call of next_token: the token is recorded and the cursor moves past
\* it.  The calls followed are capped: one per byte of the input, one for
\* the first EndOfInput and MaxCallsAfterEnd more.
NextTokenCall ==
  /\ pc = "tokenize"
  /\ Len(tokens) < ByteLen(input) + 1 + MaxCallsAfterEnd
  /\ \E token \in {NextToken(input, cursor)} :
       /\ tokens' = Append(tokens, token)
       /\ cursor' = cursor + token.len
  /\ UNCHANGED <<pc, input, spans, idx, parts, output, parsed, args, mlcts,
                 combined>>

NextTok == NextTokenCall

SpecTok == InitTok /\ [][NextTok]_vars

-----------------------------------------------------------------------------
(* The tokenizer on the rows of the single-syllable table.                 *)

\* str::replace(from, to)
RECURSIVE Replace(_, _, _)
Replace(t, from, to) ==
  IF Len(t) < Len(from) THEN t
  ELSE IF StartsWith(t, from)
    THEN to \o Replace(From(t, Len(from) + 1), from, to)
  ELSE <<Head(t)>> \o Replace(Tail(t), from, to)

\* The canonicalisation of mya2rom: nhg is written hng, nhy is written hny.
Canonical(t) ==
  Replace(Replace(t, Lit(<<"n", "h", "g">>), Lit(<<"h", "n", "g">>)),
          Lit(<<"n", "h", "y">>), Lit(<<"h", "n", "y">>))

\* The letters a medial puts before the consonant letter in a table row.
MedialPrefix(m) ==
  IF m \in {"H", "Hy", "Hr", "Hw", "Hyw", "Hrw"} THEN Lit(<<"h">>) ELSE <<>>

\* The letters a medial puts after the consonant letter in a table row.
MedialTail(m) ==
  CASE m \in {"Y", "Hy"} -> Lit(<<"y">>)
    [] m \in {"R", "Hr"} -> Lit(<<"r">>)
    [] m \in {"W", "Hw"} -> Lit(<<"w">>)
    [] m \in {"Yw", "Hyw"} -> Lit(<<"y", "w">>)
    [] m \in {"Rw", "Hrw"} -> Lit(<<"r", "w">>)
    [] OTHER -> <<>>

\* The finals of the table's classes: a., a, a:, ak, at, ac, ap.
RowFinals ==
  {<<None, "Creaky">>, <<None, None>>, <<None, "High">>, <<"K", None>>,
   <<"T", None>>, <<"C", None>>, <<"P", None>>}

\* A row is <<consonant, medial, vowel, virama, tone>>.  A row is in the
\* table when its string has one reading: the consonant A has no letter and
\* no medial; hk, hc, ht, hp and ny are the digraph consonants; an h before
\* y, r or w is the H of the medial.
Rows ==
  {r \in BasicConsonant \X Opt(MedialDiacritic) \X BasicVowel
         \X Opt(Virama) \X Opt(Tone) :
     /\ <<r[4], r[5]>> \in RowFinals
     /\ r[1] = "A" => r[2] = None
     /\ r[1] \in {"K", "C", "T", "P"} => MedialPrefix(r[2]) = <<>>
     /\ r[1] = "N" => r[2] \notin {"Y", "Yw", "Hy", "Hyw"}
     /\ r[1] = "H" => MedialTail(r[2]) = <<>>}

\* The mlcts_syllable column of a row: the string extract_consonant_from_mlcts
\* takes apart.
RowMlcts(r) ==
  MedialPrefix(r[2])
    \o (IF r[1] = "A" THEN <<>> ELSE BasicConsonantToMlcts(r[1]))
    \o MedialTail(r[2])
    \o VowelToMlcts(NewVowel(r[3], r[4], r[5]))

\* The syllable a row expects.
RowSyllable(r) ==
  NewSyllable(NewConsonant(r[1], r[2]), NewVowel(r[3], r[4], r[5]), NoBottom)

\* The generated test of one row: the tokenizer is made for the row's
\* string.
InitRows ==
  /\ pc = "tokenize"
  /\ args \in Rows
  /\ input = RowMlcts(args)
  /\ spans = <<>>
  /\ idx = 0
  /\ parts = <<>>
  /\ output = <<>>
  /\ parsed = NoResult
  /\ mlcts = <<>>
  /\ combined = None
  /\ cursor = 0
  /\ tokens = <<>>

SpecRows == InitRows /\ [][NextTok]_vars

-----------------------------------------------------------------------------
(* Properties of the phoneme model, checked under SpecPhoneme.             *)

\* Whether a medial has the H component.
ContainsH(m) == m \in {"H", "Hy", "Hr", "Hw", "Hyw", "Hrw"}

\* The letters of a medial other than its leading h.
RemainingMedialLetters(m) ==
  CASE m \in {"Y", "Hy"} -> Lit(<<"y">>)
    [] m \in {"R", "Hr"} -> Lit(<<"r">>)
    [] m \in {"W", "Hw"} -> Lit(<<"w">>)
    [] m \in {"Yw", "Hyw"} -> Lit(<<"y", "w">>)
    [] m \in {"Rw", "Hrw"} -> Lit(<<"r", "w">>)
    [] OTHER -> <<>>

\* C1: Consonant::to_mlcts returns the basic letter, preceded by h exactly
\* when the medial contains H and followed by the remaining medial letters
\* y, r, w, yw or rw; so (M, Hyw) gives "hmyw", (K, Y) gives "ky", (K, Rw)
\* gives "krw" and (K, W) gives "kw".
C1_MedialAroundBasicLetter ==
  pc = "to_mlcts_done" =>
    /\ mlcts = (IF ContainsH(args[2]) THEN Lit(<<"h">>) ELSE <<>>)
                 \o BasicConsonantToMlcts(args[1])
                 \o RemainingMedialLetters(args[2])
    /\ (args = <<"M", "Hyw">> => mlcts = Lit(<<"h", "m", "y", "w">>))
    /\ (args = <<"K", "Y">> => mlcts = Lit(<<"k", "y">>))
    /\ (args = <<"K", "Rw">> => mlcts = Lit(<<"k", "r", "w">>))
    /\ (args = <<"K", "W">> => mlcts = Lit(<<"k", "w">>))

\* The seven pairs of medials that combine, with their results.
SevenPairs ==
  {<<"H", "Y", "Hy">>, <<"H", "R", "Hr">>, <<"H", "W", "Hw">>,
   <<"Y", "W", "Yw">>, <<"R", "W", "Rw">>, <<"Hy", "W", "Hyw">>,
   <<"Hr", "W", "Hrw">>}

\* C2: over all 11 x 11 pairs, MedialDiacritic::combine returns Ok exactly
\* for the seven enumerated pairs, with the enumerated results, and an error
\* for every other pair.
C2_CombineExactlySevenPairs ==
  pc = "combine_done" =>
    IF \E t \in SevenPairs : t[1] = args[1] /\ t[2] = args[2]
      THEN <<args[1], args[2], combined>> \in SevenPairs
      ELSE combined = None

\* combine(Hy, W) has returned Hyw.
C2_Witness ==
  /\ pc = "combine_done"
  /\ args = <<"Hy", "W">>
  /\ combined = "Hyw"

-----------------------------------------------------------------------------
(* Properties of split_syllables and from_my, checked under Spec.          *)

\* C3: split_syllables is a partition of its input: the concatenation of
\* the returned spans, in order, is the input.
C3_SplitIsPartition ==
  pc # "from_my" => Concat(spans) = input

\* A boundary index: a consonant letter U+1000..U+1021 that is not preceded
\* by the stack sign and not followed by asat or the stack sign, or an ASCII
\* letter, digit or punctuation, a Myanmar independent vowel, digit, section
\* symbol or punctuation, or whitespace.
IsBoundary(s, i) ==
  LET c == s[i]
      before == IF i > 1 THEN s[i - 1] ELSE EOF_CHAR
      after == IF i < Len(s) THEN s[i + 1] ELSE EOF_CHAR
  IN  \/ /\ 4096 <= c /\ c <= 4129
         /\ before # 4153
         /\ after # 4154 /\ after # 4153
      \/ 33 <= c /\ c <= 126
      \/ c \in {4131, 4132, 4133, 4134, 4135, 4137, 4138}
      \/ 4160 <= c /\ c <= 4169
      \/ c \in {4170, 4171, 4172, 4173, 4175}
      \/ c \in {9, 10, 11, 12, 13, 32}

Boundaries(s) == {i \in 1..Len(s) : IsBoundary(s, i)}

\* The k-th boundary index of s, and Len(s) + 1 after the last.
Boundary(s, k) ==
  IF k > Cardinality(Boundaries(s)) THEN Len(s) + 1
  ELSE CHOOSE b \in Boundaries(s) :
         Cardinality({x \in Boundaries(s) : x < b}) = k - 1

\* C4: split_syllables returns one span per boundary index, in order; span
\* k runs from boundary k to boundary k + 1 and the last to the end of the
\* text; so every span is non-empty, starts at a boundary character and
\* holds no other boundary.
C4_OneSpanPerBoundary ==
  pc # "from_my" =>
    /\ Len(spans) = Cardinality(Boundaries(input))
    /\ \A k \in 1..Len(spans) :
         /\ spans[k] =
              SubSeq(input, Boundary(input, k), Boundary(input, k + 1) - 1)
         /\ spans[k] # <<>>
         /\ IsBoundary(input, Boundary(input, k))
         /\ \A i \in (Boundary(input, k) + 1)..(Boundary(input, k + 1) - 1) :
              ~IsBoundary(input, i)

\* The stacked bottom consonant of TA KA STACK KA stays in the one span, and
\* a text with two boundaries gives two spans.
C4_Witness ==
  /\ pc = "map"
  /\ \/ input = <<TA, KA, STACK_SIGN, KA>> /\ spans = <<input>>
     \/ input = <<KA, VOW_A, 32, 97>> /\ Len(spans) = 3

\* The output the claim describes: per span of split_syllables, the MLCTS
\* of the parsed syllable, or the raw span when the parse is an error.
RECURSIVE JoinedSpans(_)
JoinedSpans(ss) ==
  IF ss = <<>> THEN <<>>
  ELSE LET r == ParseSyllable(Head(ss))
       IN  (IF r.kind = "Ok" THEN SyllableToMlcts(r.val[1]) ELSE Head(ss))
             \o JoinedSpans(Tail(ss))

\* C5: from_my never panics, and its output is the in-order concatenation,
\* over the spans of split_syllables(input), of the MLCTS of the parsed
\* syllable when the parse succeeds and of the raw span when it fails.
C5_FromMyRecovers ==
  /\ pc # "panic"
  /\ parsed.kind # "Panic"
  /\ pc = "done" => output = JoinedSpans(SplitSyllables(input))

\* from_my has returned on a text with a span that parsed and a span that
\* did not.
C5_Witness ==
  /\ pc = "done"
  /\ \E i, j \in 1..Len(spans) :
       /\ ParseSyllable(spans[i]).kind = "Ok"
       /\ ParseSyllable(spans[j]).kind = "Err"
       /\ parts[i] = SyllableToMlcts(ParseSyllable(spans[i]).val[1])
       /\ parts[j] = spans[j]

-----------------------------------------------------------------------------
(* Properties of parse_syllable, checked under SpecParse.                  *)

\* Spans that are one syllable: a consonant and a vowel sign, a consonant
\* with a consonant + asat final, and a stacked cluster.
WholeSyllableSpans ==
  {<<KA, VOW_A>>, <<NGA, VOW_A>>, <<KA, KA, ASAT>>, <<NGA, KA, ASAT>>,
   <<KA, KA, STACK_SIGN, KA>>, <<NGA, KA, STACK_SIGN, KA>>}

\* C6: the length parse_syllable returns is the number of bytes of the span
\* the syllable occupies: a char boundary of the span, and the length of the
\* span when the whole span is one syllable.
C6_ConsumedLenIsBytes ==
  (pc = "parsed" /\ parsed.kind = "Ok") =>
    /\ IsCharBoundary(input, parsed.len)
    /\ (input \in WholeSyllableSpans => parsed.len = ByteLen(input))

\* C10: every Syllable parse_syllable returns has a bottom only if its
\* vowel has a virama.
C10_BottomOnlyWithVirama ==
  (pc = "parsed" /\ parsed.kind = "Ok") =>
    (parsed.val[1].bottom_syllable # NoBottom =>
       parsed.val[1].vowel.virama # None)

\* parse_syllable has returned a syllable with a bottom.
C10_Witness ==
  /\ pc = "parsed"
  /\ parsed.kind = "Ok"
  /\ parsed.val[1].bottom_syllable # NoBottom
  /\ parsed.val[1].vowel.virama = "K"

-----------------------------------------------------------------------------
(* Properties of the tokenizer, checked under SpecRows and SpecTok.         *)

\* C7: for every row of the single-syllable table, the first token of the
\* row's string m is a Syllable whose consonant, medial, vowel, virama and
\* tone are the row's, whose length is m.len(), and whose to_mlcts() is m
\* up to the nhg/hng and nhy/hny canonicalisation.
C7_RowRoundTrips ==
  tokens # <<>> =>
    /\ tokens[1].kind = "Syllable"
    /\ tokens[1].syllable = <<RowSyllable(args)>>
    /\ tokens[1].len = ByteLen(input)
    /\ Canonical(SyllableToMlcts(tokens[1].syllable[1])) = Canonical(input)

\* The kinds of the tokens returned so far.
Kinds == {tokens[i].kind : i \in 1..Len(tokens)}

\* C8: the tokens returned so far tile the input: the first starts at 0,
\* every token ends where the next starts, every token but EndOfInput has
\* a length of at least 1, and EndOfInput starts at input.len().
C8_TokensTileInput ==
  /\ tokens # <<>> => tokens[1].start = 0
  /\ \A i \in 1..(Len(tokens) - 1) :
       tokens[i].start + tokens[i].len = tokens[i + 1].start
  /\ \A i \in 1..Len(tokens) :
       /\ tokens[i].kind # "EndOfInput" => tokens[i].len >= 1
       /\ tokens[i].kind = "EndOfInput" => tokens[i].start = ByteLen(input)

\* A syllable, a whitespace run and an unknown char were returned before
\* EndOfInput.
C8_Witness ==
  /\ Kinds = {"Syllable", "Whitespace", "Unknown", "EndOfInput"}
  /\ tokens[Len(tokens)].kind = "EndOfInput"

\* next_token has returned EndOfInput.
AtEnd == tokens # <<>> /\ tokens[Len(tokens)].kind = "EndOfInput"

\* C9: next_token returns EndOfInput after finitely many calls, and every
\* call after that returns EndOfInput with length 0 and leaves the cursor
\* where it is.  The calls before the end are finitely many because the
\* cursor never passes input.len() and every call that returns another
\* token moves it forward: EndOfInput is returned by call input.len() + 1
\* at the latest.
C9_ReachesEndAndStays ==
  /\ [](cursor <= ByteLen(input))
  /\ [](Len(tokens) > ByteLen(input) => AtEnd)
  /\ [][~AtEnd' => cursor' > cursor]_vars
  /\ [][AtEnd => /\ tokens'[Len(tokens')].kind = "EndOfInput"
                 /\ tokens'[Len(tokens')].len = 0
                 /\ cursor' = cursor]_vars

\* next_token was called twice more after the EndOfInput of a text with
\* other tokens.
C9_Witness ==
  /\ Len(tokens) >= 4
  /\ tokens[1].kind # "EndOfInput"
  /\ \A i \in (Len(tokens) - 2)..Len(tokens) : tokens[i].kind = "EndOfInput"

-----------------------------------------------------------------------------
(* Properties of parse_syllable on shaped spans, checked under SpecShaped. *)

\* The viramas of the stop finals, which sound creaky by themselves.
StopFinals == {"K", "C", "T", "P"}

\* C11: every Syllable parse_syllable returns has no tone when the virama
\* of its vowel is K, C, T or P, and so has the vowel of its bottom.
C11_StopFinalHasNoTone ==
  (pc = "parsed" /\ parsed.kind = "Ok") =>
    /\ parsed.val[1].vowel.virama \in StopFinals =>
         parsed.val[1].vowel.tone = None
    /\ \A i \in 1..Len(parsed.val[1].bottom_syllable) :
         parsed.val[1].bottom_syllable[i].vowel.virama \in StopFinals =>
           parsed.val[1].bottom_syllable[i].vowel.tone = None

\* The vowel patterns of the vowel step, each with the vowel and the tone
\* listed for it.
ListedVowels ==
  { <<<<VOW_A>>, "A", None>>,
    <<<<VOW_A, TONE_HIGH>>, "A", "High">>,
    <<<<YA, ASAT>>, "Ai", None>>,
    <<<<VOW_AI_H>>, "Ai", "High">>,
    <<<<VOW_AI_H, TONE_CREAKY>>, "Ai", "Creaky">>,
    <<<<VOW_E, VOW_A>>, "Au", None>>,
    <<<<VOW_E, VOW_A, ASAT>>, "Au", None>>,
    <<<<VOW_E, VOW_A, TONE_CREAKY>>, "Au", "Creaky">>,
    <<<<VOW_U>>, "U", None>>,
    <<<<VOW_U, TONE_HIGH>>, "U", "High">>,
    <<<<VOW_U_CREAKY>>, "U", None>>,
    <<<<VOW_I_CREAKY, VOW_U_CREAKY>>, "Ui", None>>,
    <<<<VOW_I_CREAKY, VOW_U_CREAKY, TONE_HIGH>>, "Ui", "High">>,
    <<<<VOW_I_CREAKY, VOW_U_CREAKY, TONE_CREAKY>>, "Ui", "Creaky">>,
    <<<<VOW_I>>, "I", None>>,
    <<<<VOW_I, TONE_HIGH>>, "I", "High">>,
    <<<<VOW_I_CREAKY>>, "I", None>>,
    <<<<VOW_E>>, "E", None>>,
    <<<<VOW_E, TONE_HIGH>>, "E", "High">>,
    <<<<VOW_E, TONE_CREAKY>>, "E", "Creaky">> }

\* C12: for every onset consonant c and every listed vowel pattern,
\* parse_syllable(c + pattern) succeeds and returns the syllable with onset
\* c, the listed vowel and tone, no virama and no bottom.
C12_ListedVowelsParse ==
  pc = "parsed" =>
    \A c \in ConsonantChars, row \in ListedVowels :
      input = <<c>> \o row[1] =>
        /\ parsed.kind = "Ok"
        /\ parsed.val =
             <<NewSyllable(NewConsonant(FromMyAlphabet(c), None),
                           NewVowel(row[2], None, row[3]), NoBottom)>>

-----------------------------------------------------------------------------
(* Properties of the phoneme model's conversions, checked under            *)
(* SpecPhoneme.                                                            *)

\* The chars within the bound that from_my_alphabet succeeds on.
Recognised == {c \in Chars : FromMyAlphabet(c) # None}

\* The pairs of letters that collapse to one BasicConsonant.
CollapsedPairs ==
  { <<{TTA, TA}, "T">>, <<{TTHA, THA}, "Ht">>, <<{DDA, DA}, "D">>,
    <<{DDHA, DHA}, "Dh">>, <<{NNA, NA}, "N">>, <<{NYA, NNYA}, "Ny">>,
    <<{LLA, LA}, "L">> }

\* What C13 says of one call: an error on U+0000 and on the great sa, and
\* the collapsed pairs.
AlphabetCallAsClaimed ==
  /\ args[1] \in {EOF_CHAR, GREAT_SA} => combined = None
  /\ \A row \in CollapsedPairs : args[1] \in row[1] => combined = row[2]

\* C13 as stated: from_my_alphabet succeeds on exactly 33 code points and
\* returns an error for every other char; the seven pairs collapse to T,
\* Ht, D, Dh, N, Ny and L.
C13_ExactlyThirtyThreeLetters ==
  pc = "from_my_alphabet_done" =>
    /\ Cardinality(Recognised) = 33
    /\ AlphabetCallAsClaimed

\* C13 as amended: from_my_alphabet succeeds on exactly the 34 code points
\* U+1000 to U+1021 and returns an error for every other char; the seven
\* pairs collapse to T, Ht, D, Dh, N, Ny and L.
C13_ExactlyThirtyFourLetters ==
  pc = "from_my_alphabet_done" =>
    /\ Cardinality(Recognised) = 34
    /\ combined # None <=> args[1] \in 4096..4129
    /\ AlphabetCallAsClaimed

\* from_my_alphabet has returned T for the letter TTA.
C13_Witness ==
  /\ pc = "from_my_alphabet_done"
  /\ args = <<TTA>>
  /\ combined = "T"

\* The spelling listed for each basic vowel.
ListedVowelSpelling ==
  [v \in BasicVowel |->
     CASE v = "A" -> <<97>>       [] v = "I" -> <<105>>
       [] v = "U" -> <<117>>      [] v = "E" -> <<101>>
       [] v = "Ai" -> <<97, 105>> [] v = "Au" -> <<97, 117>>
       [] v = "Ui" -> <<117, 105>>]

\* The mark listed for each tone: ':' for High and '.' for Creaky.
ListedToneMark == [t \in Tone |-> IF t = "High" THEN <<58>> ELSE <<46>>]

\* The basic vowel spelling, the virama letter if present and the tone mark
\* if present, in this order.
ListedVowelMlcts(v) ==
  ListedVowelSpelling[v.basic]
    \o (IF v.virama # None THEN ViramaToMlcts(v.virama) ELSE <<>>)
    \o (IF v.tone # None THEN ListedToneMark[v.tone] ELSE <<>>)

\* C14: Vowel::to_mlcts is the basic vowel spelling, then the virama letter
\* if present, then the tone mark if present; Syllable::to_mlcts is
\* Consonant::to_mlcts, then Vowel::to_mlcts, then the MLCTS of the bottom's
\* consonant and vowel if a bottom is present, with nothing in between.
C14_ToMlctsConcatenates ==
  /\ pc = "vowel_to_mlcts_done" => mlcts = ListedVowelMlcts(args[1])
  /\ pc = "syllable_to_mlcts_done" =>
       mlcts = ConsonantToMlcts(args[1].consonant)
                 \o ListedVowelMlcts(args[1].vowel)
                 \o (IF args[1].bottom_syllable # NoBottom
                       THEN ConsonantToMlcts(
                              args[1].bottom_syllable[1].consonant)
                              \o ListedVowelMlcts(
                                   args[1].bottom_syllable[1].vowel)
                       ELSE <<>>)

\* Syllable::to_mlcts has returned "kaung:hsuin:": a vowel with a virama
\* and a tone over a bottom with a virama and a tone.
C14_Witness ==
  /\ pc = "syllable_to_mlcts_done"
  /\ args[1].vowel = NewVowel("Au", "Ng", "High")
  /\ args[1].bottom_syllable # NoBottom
  /\ mlcts = <<107, 97, 117, 110, 103, 58, 104, 115, 117, 105, 110, 58>>

-----------------------------------------------------------------------------
(* Properties of the closure match of parse_syllable, checked under        *)
(* SpecShaped.  "The char after the vowel section" is top_consonant: the    *)
(* char the closure match reads first, after the arm of the vowel match    *)
(* that carried the vowel forward.                                         *)

\* "pissa"
Pissa == <<112, 105, 115, 115, 97>>

GreatSaExpansion == <<SA, STACK_SIGN, SA>>

\* C16: for every span with the great sa after the onset and the vowel,
\* parse_syllable of the span and of the span with the ligature replaced by
\* SA, stack sign, SA both fail, or both succeed with the same Syllable.
C16_GreatSaAsItsExpansion ==
  pc = "parsed" =>
    \A i \in 1..Len(AtClosure(input)) :
      AtClosure(input)[i].top_consonant = GREAT_SA =>
        \E e \in {ParseSyllable(
                    Replace(input, <<GREAT_SA>>, GreatSaExpansion))} :
          /\ parsed.kind = "Ok" <=> e.kind = "Ok"
          /\ parsed.kind = "Ok" => parsed.val = e.val

\* The (top, bottom) pairs of the closure table: the top consonants and
\* the bottom consonants allowed under them.
StackPairs ==
  { <<{KA}, {KA, KHA}>>, <<{GA}, {GA, GHA}>>, <<{CA}, {CA, CHA}>>,
    <<{JA}, {JA, JHA}>>, <<{NYA, NNYA}, {CA, JA}>>,
    <<{TTA}, {TTA, TTHA}>>, <<{DDA}, {DDA, DDHA}>>, <<{NNA}, {DDA}>>,
    <<{TA}, {TA}>>, <<{THA}, {THA}>>, <<{DA}, {DA}>>,
    <<{NA}, {TA, THA, DA, DHA, NA}>>, <<{PA}, {PA}>>, <<{BA}, {BA, BHA}>>,
    <<{MA}, {PA, BA, BHA, MA}>>, <<{LA}, {LA}>> }

\* The bottom consonants allowed under a top consonant.
AllowedBottoms(top) ==
  UNION {row[2] : row \in {r \in StackPairs : top \in r[1]}}

TaKaStackKa == <<TA, KA, STACK_SIGN, KA>>

\* The syllable with consonant T, vowel A with the given virama and no
\* tone, and bottom (K, A).
TaOverKa(virama) ==
  NewSyllable(NewConsonant("T", None), NewVowel("A", virama, None),
              <<[consonant |-> NewConsonant("K", None),
                 vowel |-> NewVowel("A", None, None)]>>)

\* C18 as stated: parse_syllable of TA, KA, stack sign, KA returns the
\* syllable with consonant T (no medial), vowel A with virama T and no tone,
\* and bottom (K, A).
C18_TaKaStackKaViramaT ==
  (pc = "parsed" /\ input = TaKaStackKa) =>
    /\ parsed.kind = "Ok"
    /\ parsed.val = <<TaOverKa("T")>>

\* C18 as amended: parse_syllable of TA, KA, stack sign, KA returns the
\* syllable with consonant T (no medial), vowel A with virama K and no tone,
\* and bottom (K, A).
C18_TaKaStackKaViramaK ==
  (pc = "parsed" /\ input = TaKaStackKa) =>
    /\ parsed.kind = "Ok"
    /\ parsed.val = <<TaOverKa("K")>>

\* parse_syllable has returned for the span TA, KA, stack sign, KA.
C18_Witness ==
  /\ pc = "parsed"
  /\ input = TaKaStackKa
  /\ parsed.kind = "Ok"
  /\ parsed.val[1].bottom_syllable # NoBottom

\* The finals that take a tone mark, each with its virama.
TonedFinals ==
  { <<{NGA}, "Ng">>, <<{NYA, NNYA}, "Ny">>, <<{NA}, "N">>, <<{MA}, "M">> }

\* What follows the asat of a final: the end of the span, the visarga
\* U+1038 or the dot below U+1037, each with the tone it gives.
FinalEndings ==
  { <<<<>>, None>>, <<<<TONE_HIGH>>, "High">>, <<<<TONE_CREAKY>>, "Creaky">> }

\* C19: a final NGA, NYA or NNYA, NA or MA followed by the asat and then the
\* end of the span, the visarga U+1038 or the dot below U+1037 is accepted:
\* the result has the virama of the consonant (Ng, Ny, N, M), the tone None,
\* High or Creaky respectively, and no bottom.
C19_TonedFinalsAccepted ==
  pc = "parsed" =>
    \A i \in 1..Len(AtClosure(input)) :
      \A final \in TonedFinals, ending \in FinalEndings :
        ( /\ AtClosure(input)[i].top_consonant \in final[1]
          /\ AtClosure(input)[i].rest = <<ASAT>> \o ending[1] ) =>
          /\ parsed.kind = "Ok"
          /\ parsed.val[1].vowel.virama = final[2]
          /\ parsed.val[1].vowel.tone = ending[2]
          /\ parsed.val[1].bottom_syllable = NoBottom

\* Whether the closure match m is at a kinzi: NGA, asat, stack sign.
IsKinzi(m) ==
  /\ m.top_consonant = NGA
  /\ CharAt(m.rest, 1) = ASAT
  /\ CharAt(m.rest, 2) = STACK_SIGN

\* Whether the closure match m is at a stack-sign cluster that is none of
\* the table: a top consonant with the stack sign and no bottom allowed for
\* it (or no bottom at all), or a kinzi with no parsable bottom.
OutsideStackTable(m) ==
  \/ /\ CharAt(m.rest, 1) = STACK_SIGN
     /\ CharAt(m.rest, 2) \notin AllowedBottoms(m.top_consonant)
  \/ /\ IsKinzi(m)
     /\ ParseSyllable(From(m.rest, 3)).kind # "Ok"

-----------------------------------------------------------------------------
(* The recursion of parse_syllable, one call at a time: spans holds the    *)
(* argument of every call that is running, the outermost first.            *)

\* The argument of the recursive call parse_syllable makes on a span, as
\* <<text>>, or <<>> when the call returns without one: cursor.as_str()
\* after the stack sign or the kinzi, and SA with the remainder after the
\* great sa.
RecursiveCall(syllable) ==
  IF AtClosure(syllable) = <<>> THEN <<>>
  ELSE
    LET rest == AtClosure(syllable)[1].rest
        i == ClosureArm(AtClosure(syllable)[1].top_consonant,
                        CharAt(rest, 1), CharAt(rest, 2), CharAt(rest, 3))
    IN  IF i = 0 THEN <<>>
        ELSE IF ClosureRows[i].kind = "great_sa"
          THEN <<GreatSaExpanded(rest)>>
        ELSE IF ClosureRows[i].kind = "stack"
          THEN <<From(rest, 1 + ClosureRows[i].next)>>
        ELSE <<>>

InitDescend ==
  /\ pc = "descend"
  /\ input \in ShapedSpans \cup Texts(SpanChars, MaxSpanLen)
  /\ spans = <<input>>
  /\ idx = 0
  /\ parts = <<>>
  /\ output = <<>>
  /\ parsed = NoResult
  /\ args = <<>>
  /\ mlcts = <<>>
  /\ combined = None
  /\ cursor = 0
  /\ tokens = <<>>

\* The innermost running call reaches its recursive call, or returns
\* without one.  The calls followed are capped two above the length of the
\* input.
ParseSyllableDescend ==
  /\ pc = "descend"
  /\ Len(spans) <= Len(input) + 2
  /\ \E call \in {RecursiveCall(spans[Len(spans)])} :
       IF call = <<>>
         THEN /\ pc' = "bottomed"
              /\ UNCHANGED spans
         ELSE /\ spans' = Append(spans, call[1])
              /\ UNCHANGED pc
  /\ UNCHANGED <<input, idx, parts, output, parsed, args, mlcts, combined,
                 cursor, tokens>>

NextDescend == ParseSyllableDescend

SpecDescend == InitDescend /\ [][NextDescend]_vars

-----------------------------------------------------------------------------
(* tokenize and the token list of the demo page: the tokens are collected  *)
(* and each is rendered by token_view.                                     *)

\* The MLCTS texts given to tokenize: an onset, a vowel, a final, a tone
\* mark and what follows, and the text "myan mar".
MlctsTexts ==
  {o \o v \o f \o m \o n :
     o \in {<<>>, Lit(<<"k">>), Lit(<<"m", "y">>)},
     v \in {<<>>, Lit(<<"a">>), Lit(<<"a", "u">>)},
     f \in {<<>>, Lit(<<"k">>), Lit(<<"c">>), Lit(<<"t">>), Lit(<<"p">>),
            Lit(<<"n">>), Lit(<<"n", "g">>)},
     m \in {<<>>, Lit(<<":">>), Lit(<<".">>)},
     n \in {<<>>, Lit(<<"a">>), <<32>>, Lit(<<"m", "a">>), <<233>>}}
    \cup {Lit(<<"m", "y", "a", "n">>) \o <<32>> \o Lit(<<"m", "a", "r">>)}

\* tokenize(&text): a tokenizer at byte offset 0 of the text.
InitTokenize ==
  /\ pc = "tokenize_iter"
  /\ input \in MlctsTexts
  /\ spans = <<>>
  /\ idx = 0
  /\ parts = <<>>
  /\ output = <<>>
  /\ parsed = NoResult
  /\ args = <<>>
  /\ mlcts = <<>>
  /\ combined = None
  /\ cursor = 0
  /\ tokens = <<>>

\* One step of collect() over tokenize(&text): the next token is pushed, or
\* the iterator has ended and the token list is rendered.
TokenizeNext ==
  /\ pc = "tokenize_iter"
  /\ Len(tokens) < ByteLen(input) + 1 + MaxCallsAfterEnd
  /\ \E token \in {NextToken(input, cursor)} :
       IF TokenizeYields(token)
         THEN /\ tokens' = Append(tokens, token)
              /\ cursor' = cursor + token.len
              /\ UNCHANGED <<pc, idx>>
         ELSE /\ pc' = IF tokens = <<>> THEN "rendered" ELSE "token_view"
              /\ idx' = 1
              /\ UNCHANGED <<tokens, cursor>>
  /\ UNCHANGED <<input, spans, parts, output, parsed, args, mlcts, combined>>

\* tokens.into_iter().map(|token| token_view(token, input)): one token is
\* rendered; unreachable!() panics.
TokenView ==
  /\ pc = "token_view"
  /\ idx <= Len(tokens)
  /\ \E view \in {TokenViewOf(tokens[idx], input)} :
       IF view.class = "unreachable"
         THEN /\ pc' = "panic"
              /\ UNCHANGED <<idx, output>>
         ELSE /\ output' = Append(output, view)
              /\ idx' = idx + 1
              /\ pc' = IF idx = Len(tokens) THEN "rendered" ELSE pc
  /\ UNCHANGED <<input, spans, parts, parsed, args, mlcts, combined, cursor,
                 tokens>>

NextTokenize == TokenizeNext \/ TokenView

SpecTokenize == InitTokenize /\ [][NextTokenize]_vars

-----------------------------------------------------------------------------
(* Properties of parse_consonant, checked under SpecConsonant.             *)

\* The medial patterns in the order they are tested, each with its medial.
ListedMedialPatterns ==
  << <<<<MEDIAL_R, MEDIAL_W, MEDIAL_H>>, "Hrw">>,
     <<<<MEDIAL_Y, MEDIAL_W, MEDIAL_H>>, "Hyw">>,
     <<<<MEDIAL_W, MEDIAL_H>>, "Hw">>,
     <<<<MEDIAL_R, MEDIAL_W>>, "Rw">>,
     <<<<MEDIAL_Y, MEDIAL_W>>, "Yw">>,
     <<<<MEDIAL_R, MEDIAL_H>>, "Hr">>,
     <<<<MEDIAL_Y, MEDIAL_H>>, "Hy">>,
     <<<<MEDIAL_W>>, "W">>,
     <<<<MEDIAL_R>>, "R">>,
     <<<<MEDIAL_Y>>, "Y">>,
     <<<<MEDIAL_H>>, "H">>,
     <<<<>>, None>> >>

\* The first listed pattern the text t starts with.
FirstListedPattern(t) ==
  ListedMedialPatterns[
    CHOOSE i \in 1..Len(ListedMedialPatterns) :
      /\ StartsWith(t, ListedMedialPatterns[i][1])
      /\ \A j \in 1..(i - 1) : ~StartsWith(t, ListedMedialPatterns[j][1])]

\* C21: parse_consonant reads one consonant and matches the next up to three
\* chars against the medial patterns in the listed order, the first match
\* winning; the length returned is the byte length of the consonant and the
\* matched marks; for the consonant A no mark is consumed and the medial is
\* None.
C21_MedialPatternsInOrder ==
  (pc = "consonant_parsed" /\ CharAt(input, 1) \in KA..LETTER_A) =>
    /\ parsed.kind = "Ok"
    /\ parsed.val[1].basic = FromMyAlphabet(input[1])
    /\ IF input[1] = LETTER_A
         THEN /\ parsed.val[1].medial = None
              /\ parsed.len = Utf8Len(input[1])
         ELSE /\ parsed.val[1].medial = FirstListedPattern(Tail(input))[2]
              /\ parsed.len =
                   Utf8Len(input[1])
                     + ByteLen(FirstListedPattern(Tail(input))[1])

\* parse_consonant has returned Hw and 9 bytes for MA, W, H, Y: the pattern
\* W H wins over W, and the fourth char is not read.
C21_Witness ==
  /\ pc = "consonant_parsed"
  /\ input = <<MA, MEDIAL_W, MEDIAL_H, MEDIAL_Y>>
  /\ parsed.kind = "Ok"
  /\ parsed.val[1] = NewConsonant("M", "Hw")
  /\ parsed.len = 9

\* The marks parse_consonant consumed after the first char: the prefix of
\* the rest of the input that makes up the returned byte length.
ConsumedMarks ==
  SubSeq(input, 2,
         CHOOSE n \in 1..Len(input) : ByteLen(SubSeq(input, 1, n)) = parsed.len)

\* The marks of the text t as optional medials: H, then Y or R, then W.
MarkH(t) == IF \E i \in 1..Len(t) : t[i] = MEDIAL_H THEN "H" ELSE None
MarkYR(t) ==
  IF \E i \in 1..Len(t) : t[i] = MEDIAL_Y THEN "Y"
  ELSE IF \E i \in 1..Len(t) : t[i] = MEDIAL_R THEN "R" ELSE None
MarkW(t) == IF \E i \in 1..Len(t) : t[i] = MEDIAL_W THEN "W" ELSE None

\* combine_medial_diacritics chained over three optional medials; <<>> when
\* a step fails.
ChainedMedial(h, yr, w) ==
  LET first == CombineMedialDiacritics(h, yr)
  IN  IF first = <<>> THEN <<>> ELSE CombineMedialDiacritics(first[1], w)

\* C29: the medial parse_consonant returns is the one built by chaining
\* combine_medial_diacritics (an absent mark is the identity) over H if
\* consumed, then Y or R if consumed, then W if consumed; the chain never
\* fails on the consumed marks.
C29_MedialIsChainedCombine ==
  (pc = "consonant_parsed" /\ parsed.kind = "Ok") =>
    ChainedMedial(MarkH(ConsumedMarks), MarkYR(ConsumedMarks),
                  MarkW(ConsumedMarks)) = <<parsed.val[1].medial>>

\* parse_consonant has consumed R, W, H after KA and returned Hrw, which is
\* combine(combine(H, R), W).
C29_Witness ==
  /\ pc = "consonant_parsed"
  /\ input = <<KA, MEDIAL_R, MEDIAL_W, MEDIAL_H, VOW_A>>
  /\ parsed.kind = "Ok"
  /\ ConsumedMarks = <<MEDIAL_R, MEDIAL_W, MEDIAL_H>>
  /\ parsed.val[1].medial = "Hrw"
  /\ Combine(Combine("H", "R"), "W") = "Hrw"

-----------------------------------------------------------------------------
(* Failures of parse_syllable, checked under SpecParse.                    *)

\* C22: every failure of parse_syllable is an Err whose value is the whole
\* input span of the outermost call: when the first char is not a consonant
\* (the empty span included), when no closure arm matches, and when the
\* recursive parse of a bottom fails.
C22_ErrIsWholeSpan ==
  pc = "parsed" =>
    /\ parsed.kind \in {"Ok", "Err"}
    /\ parsed.kind = "Err" => parsed.err = input
    /\ ParseConsonant(input).kind = "Err" => parsed.kind = "Err"

\* The parse of KA, great sa, asat has failed in the recursive parse of
\* SA + asat (whose own failure carries that shorter text) and returned the
\* whole span.
C22_Witness ==
  /\ pc = "parsed"
  /\ input = <<KA, GREAT_SA, ASAT>>
  /\ ParseSyllable(<<SA, ASAT>>) = Err(<<SA, ASAT>>)
  /\ parsed = Err(input)

-----------------------------------------------------------------------------
(* Chains of combine, checked under SpecPhoneme.                           *)

\* C23: over all triples (a, b, c) of medials, combine(combine(a, b), c)
\* succeeds exactly for (H, Y, W), giving Hyw, and (H, R, W), giving Hrw;
\* the right-nested combine(a, combine(b, c)) never succeeds.
C23_OnlyLeftNestedTriples ==
  /\ pc = "combine_left_done" =>
        /\ combined # None <=> args \in {<<"H", "Y", "W">>, <<"H", "R", "W">>}
        /\ args = <<"H", "Y", "W">> => combined = "Hyw"
        /\ args = <<"H", "R", "W">> => combined = "Hrw"
  /\ pc = "combine_right_done" => combined = None

\* The left-nested chain over (H, R, W) has given Hrw.
C23_Witness ==
  /\ pc = "combine_left_done"
  /\ args = <<"H", "R", "W">>
  /\ combined = "Hrw"

-----------------------------------------------------------------------------
(* Properties of tokenize, checked under SpecTokenize.                     *)

\* The finals that take no tone mark, with their letters.
StopFinalLetters ==
  {<<"K", Chr["k"]>>, <<"C", Chr["c"]>>, <<"T", Chr["t"]>>, <<"P", Chr["p"]>>}

\* The tone marks with their tones.
ToneMarkChars == {<<"High", Chr[":"]>>, <<"Creaky", Chr["."]>>}

\* A non-empty onset and vowel before a candidate final.
OnsetAndVowel ==
  {o \o v : o \in {<<>>, Lit(<<"k">>), Lit(<<"m", "y">>)},
            v \in {<<>>, Lit(<<"a">>), Lit(<<"a", "u">>)}} \ {<<>>}

\* C24: no Syllable token has one of the viramas K, C, T, P together with a
\* tone; when the candidate final k, c, t or p is immediately followed by
\* ':' or '.', the syllable is emitted without that virama and the
\* consonant starts the next token, which takes the tone mark.
C24_StopFinalTakesNoTone ==
  /\ \A i \in 1..Len(tokens) :
       tokens[i].kind = "Syllable" =>
         ~(/\ tokens[i].syllable[1].vowel.virama \in {"K", "C", "T", "P"}
           /\ tokens[i].syllable[1].vowel.tone # None)
  /\ \A pre \in OnsetAndVowel, f \in StopFinalLetters, m \in ToneMarkChars :
       (StartsWith(input, pre \o <<f[2], m[2]>>) /\ Len(tokens) >= 2) =>
         /\ tokens[1].kind = "Syllable"
         /\ tokens[1].len = Len(pre)
         /\ tokens[1].syllable[1].vowel.virama = None
         /\ tokens[1].syllable[1].vowel.tone = None
         /\ tokens[2].kind = "Syllable"
         /\ tokens[2].start = Len(pre)
         /\ tokens[2].syllable[1].consonant.basic = f[1]
         /\ tokens[2].syllable[1].vowel.tone = m[1]

\* "kat." has been tokenized into the syllable ka without a virama and the
\* syllable t. with the tone Creaky.
C24_Witness ==
  /\ pc = "rendered"
  /\ input = Lit(<<"k", "a", "t", ".">>)
  /\ Len(tokens) = 2
  /\ tokens[1].len = 2
  /\ tokens[1].syllable[1].vowel = NewVowel("A", None, None)
  /\ tokens[2].syllable[1].consonant.basic = "T"
  /\ tokens[2].syllable[1].vowel.tone = "Creaky"

\* The text "myan mar".
MyanMar == Lit(<<"m", "y", "a", "n">>) \o <<32>> \o Lit(<<"m", "a", "r">>)

\* C25: tokenize(input) never contains an EndOfInput token: it yields the
\* Syllable, Whitespace and Unknown tokens in order and has reached the end
\* of the input when it stops, so the unreachable!() of token_view is never
\* run; tokenize("myan mar") is a syllable, whitespace and two syllables.
C25_TokenizeHasNoEndOfInput ==
  /\ \A i \in 1..Len(tokens) :
       /\ tokens[i].kind \in {"Syllable", "Whitespace", "Unknown"}
       /\ tokens[i].start = IF i = 1 THEN 0
                             ELSE tokens[i - 1].start + tokens[i - 1].len
  /\ pc # "panic"
  /\ pc \in {"token_view", "rendered"} => cursor = ByteLen(input)
  /\ pc = "rendered" => Len(output) = Len(tokens)
  /\ (pc = "rendered" /\ input = MyanMar) =>
        /\ [i \in 1..Len(tokens) |-> tokens[i].kind] =
             <<"Syllable", "Whitespace", "Syllable", "Syllable">>
        /\ tokens[1].syllable[1] =
             NewSyllable(NewConsonant("M", "Y"), NewVowel("A", "N", None),
                         NoBottom)

\* The four tokens of "myan mar" have been collected and rendered.
C25_Witness ==
  /\ pc = "rendered"
  /\ input = MyanMar
  /\ Len(tokens) = 4
  /\ [i \in 1..4 |-> output[i].class] =
       <<"syllable", "whitespace", "syllable", "syllable">>

-----------------------------------------------------------------------------
(* Injectivity of Consonant::to_mlcts, checked under SpecPhoneme.          *)

\* The consonants that serialize like the consonant of args.
SameMlcts ==
  {other \in BasicConsonant \X Opt(MedialDiacritic) :
     ConsonantToMlcts(NewConsonant(other[1], other[2])) = mlcts}

\* C26: Consonant::to_mlcts is injective: no two consonants serialize to the
\* same text; in particular (K, H), (C, H), (T, H) and (P, H) do not
\* serialize like Hk, Hc, Ht and Hp.
C26_ToMlctsInjective ==
  pc = "to_mlcts_done" => SameMlcts = {args}

\* The pairs of consonants with the same serialization: hk, hc, ht, hp, hny
\* and hnyw.
CollidingConsonants ==
  { {<<"K", "H">>, <<"Hk", None>>}, {<<"C", "H">>, <<"Hc", None>>},
    {<<"T", "H">>, <<"Ht", None>>}, {<<"P", "H">>, <<"Hp", None>>},
    {<<"N", "Hy">>, <<"Ny", "H">>}, {<<"N", "Hyw">>, <<"Ny", "Hw">>} }

\* C26 as amended: Consonant::to_mlcts is injective except on six pairs:
\* (K, H), (C, H), (T, H), (P, H) serialize like Hk, Hc, Ht, Hp, (N, Hy)
\* like (Ny, H) and (N, Hyw) like (Ny, Hw); every other consonant has a
\* serialization no other consonant has.
C26_ToMlctsInjectiveButSixPairs ==
  pc = "to_mlcts_done" =>
    IF \E pair \in CollidingConsonants : args \in pair
      THEN SameMlcts \in CollidingConsonants
      ELSE SameMlcts = {args}

\* (K, H) has been serialized to "hk", the serialization of (Hk, None).
C26_Witness ==
  /\ pc = "to_mlcts_done"
  /\ args = <<"K", "H">>
  /\ mlcts = Lit(<<"h", "k">>)
  /\ SameMlcts = {<<"K", "H">>, <<"Hk", None>>}

-----------------------------------------------------------------------------
(* Stacks below a bottom, checked under SpecShaped.                        *)

\* Whether the text t ends with the text p.
EndsWith(t, p) ==
  Len(t) >= Len(p) /\ SubSeq(t, Len(t) - Len(p) + 1, Len(t)) = p

\* The span given to the recursive parse at the closure match m: what
\* follows the stack sign, what follows the kinzi, or SA and what follows
\* the great sa; <<>> at any other closure (written as a set).
BottomSpans(m) ==
  IF m.top_consonant = GREAT_SA THEN {<<SA>> \o m.rest}
  ELSE IF m.top_consonant = NGA /\ StartsWith(m.rest, <<ASAT, STACK_SIGN>>)
    THEN {From(m.rest, 3)}
  ELSE IF StartsWith(m.rest, <<STACK_SIGN>>) THEN {From(m.rest, 2)}
  ELSE {}

\* C27: parse_syllable never discards a stacked level: when the recursive
\* parse of the bottom returns a syllable that has a bottom of its own, the
\* nested bottom is still in the result, so that Syllable::to_mlcts of the
\* result ends with the whole serialization of the syllable parsed below.
C27_NestedBottomKept ==
  (pc = "parsed" /\ parsed.kind = "Ok") =>
    \A k \in 1..Len(AtClosure(input)) :
      \A span \in BottomSpans(AtClosure(input)[k]) :
        \A inner \in {ParseSyllable(span)} :
          (inner.kind = "Ok" /\ inner.val[1].bottom_syllable # NoBottom) =>
            EndsWith(SyllableToMlcts(parsed.val[1]),
                     SyllableToMlcts(inner.val[1]))

-----------------------------------------------------------------------------
(* The extent of a successful parse, checked under SpecShaped.             *)

\* The number of chars parse_consonant consumed at the start of the span.
ConsonantChars0(span) ==
  CHOOSE n \in 0..Len(span) :
    ByteLen(SubSeq(span, 1, n)) = ParseConsonant(span).len

\* The chars of a successfully parsed span after the last char the parse
\* has consumed: an arm that returns has consumed the chars it adds to
\* consumed_len, and an arm that parses a bottom has consumed what the
\* parse of the bottom has.
RECURSIVE Unmatched(_)
Unmatched(span) ==
  LET here == From(span, ConsonantChars0(span)
                           + (ParseSyllable(span).len
                                - ParseConsonant(span).len) + 1)
  IN  IF AtClosure(span) = <<>> THEN here
      ELSE IF BottomSpans(AtClosure(span)[1]) = {} THEN here
      ELSE Unmatched(CHOOSE inner \in BottomSpans(AtClosure(span)[1]) : TRUE)

\* C28: whenever parse_syllable succeeds it has matched the span up to its
\* end: no char of the span is left after the last char an arm consumed
\* (neither chars after U+1031 U+102C + asat or + dot-below, nor the
\* dot-below after U+1030).
C28_ParseMatchesWholeSpan ==
  (pc = "parsed" /\ parsed.kind = "Ok") => Unmatched(input) = <<>>

-----------------------------------------------------------------------------
(* Termination of parse_syllable, checked under SpecDescend.               *)

\* C30: parse_syllable terminates: every recursive call (after a stack
\* sign, after the kinzi, and on SA + rest after a great sa) is made on a
\* text strictly shorter in bytes than the input of the call that makes it,
\* so the number of recursive calls is at most the length of the span.
C30_RecursionOnShorterSpans ==
  /\ \A k \in 2..Len(spans) : ByteLen(spans[k]) < ByteLen(spans[k - 1])
  /\ Len(spans) - 1 <= Len(input)

\* TA, KA, stack sign, KA, KA, stack sign, KA has been parsed with two
\* recursive calls, on the four chars and on the one char after the stack
\* signs.
C30_Witness ==
  /\ pc = "bottomed"
  /\ input = <<TA, KA, STACK_SIGN, KA, KA, STACK_SIGN, KA>>
  /\ spans = <<input, <<KA, KA, STACK_SIGN, KA>>, <<KA>>>>

====
